---- MODULE Spec2Model ----
(***************************************************************************)
(* Modbus TCP -> OPC UA gateway (SMA Sunny Boy): the run loop of main(),   *)
(* the Modbus client wrappers, the SMA value decoder and the per-point     *)
(* poll timers.                                                            *)
(*                                                                         *)
(* Numbers wider than 31 bits (uint32_t / uint64_t raw values) are kept as *)
(* tuples of four 16-bit words, most significant first, because the model  *)
(* checker's integers are 32-bit.  A C float is kept as the 24-bit         *)
(* significand and binary exponent that the integer-to-float conversion    *)
(* produces, times a decimal scale that is left symbolic.                  *)
(***************************************************************************)
EXTENDS Integers, Sequences, FiniteSets, TLC

(***************************************************************************)
(* Bounds of the model.                                                    *)
(***************************************************************************)
\* last instant of the wall clock that the run-loop specification explores
MaxClock == 6100

\* calls of opcua_update_history in one run of the history functions
MaxAppends == 5

\* calls of opcua_update_history in one run of two concurrent callers
MaxConcAppends == 2

\* the last instant of the clock the history functions read
MaxTime == 2

\* how many times the historyNodes array may be moved or freed
MaxBlocks == 2

\* calls of opcua_update_history in one run with registration and clean-up
\* at any time
MaxRaceAppends == 1

(***************************************************************************)
(* Program constants.                                                      *)
(***************************************************************************)
SMA_NAN_S16 == 32768
SMA_NAN_U16 == 65535
\* 0x80000000, 0xFFFFFFFF and 0xFFFFFFFFFFFFFFFF as uint64_t word tuples
SMA_NAN_S32 == <<0, 0, 32768, 0>>
SMA_NAN_U32 == <<0, 0, 65535, 65535>>
SMA_NAN_U64 == <<65535, 65535, 65535, 65535>>

\* sleep(5) after a failed connect, usleep(100 * 1000) at the end of a pass
BACKOFF_MS == 5000
TICK_MS == 100

EXIT_SUCCESS == 0
EXIT_FAILURE == 1

SIGINT == 2
SIGTERM == 15

(***************************************************************************)
(* Strings that the code inspects character by character (the format) are  *)
(* tuples of one-character strings; NoFormat is the NULL pointer that      *)
(* get_string returns for an absent "format" key.                          *)
(***************************************************************************)
NoFormat == <<>>
FmtFIX == <<"F", "I", "X">>
FmtFIX0 == <<"F", "I", "X", "0">>
FmtFIX1 == <<"F", "I", "X", "1">>
FmtFIX2 == <<"F", "I", "X", "2">>
FmtFIX3 == <<"F", "I", "X", "3">>
FmtENUM == <<"E", "N", "U", "M">>
FmtFW == <<"F", "W">>
FmtDT == <<"D", "T">>
FmtTM == <<"T", "M">>
FmtDuration == <<"D", "u", "r", "a", "t", "i", "o", "n">>
FmtTEMP == <<"T", "E", "M", "P">>
FmtRAW == <<"R", "A", "W">>

Formats ==
  {NoFormat, FmtFIX, FmtFIX0, FmtFIX1, FmtFIX2, FmtFIX3, FmtENUM, FmtFW,
   FmtDT, FmtTM, FmtDuration, FmtTEMP, FmtRAW}

\* the declared types of the SMA profile, and one the decoder does not know
DeclaredTypes == {"U16", "S16", "U32", "S32", "U64"}
DataTypes == DeclaredTypes \cup {"FLOAT32"}

(***************************************************************************)
(* C library helpers.                                                      *)
(***************************************************************************)
Digits == {"0", "1", "2", "3", "4", "5", "6", "7", "8", "9"}

DigitVal(c) ==
  CASE c = "0" -> 0 [] c = "1" -> 1 [] c = "2" -> 2 [] c = "3" -> 3
    [] c = "4" -> 4 [] c = "5" -> 5 [] c = "6" -> 6 [] c = "7" -> 7
    [] c = "8" -> 8 [] c = "9" -> 9

\* the character of a decimal digit
DigitChar(d) ==
  CASE d = 0 -> "0" [] d = 1 -> "1" [] d = 2 -> "2" [] d = 3 -> "3"
    [] d = 4 -> "4" [] d = 5 -> "5" [] d = 6 -> "6" [] d = 7 -> "7"
    [] d = 8 -> "8" [] d = 9 -> "9"

\* snprintf "%d" of a number that is not negative
RECURSIVE Decimal(_)
Decimal(n) ==
  IF n < 10 THEN <<DigitChar(n)>> ELSE Decimal(n \div 10) \o <<DigitChar(n % 10)>>

\* strncmp(s, p, Len(p)) == 0
HasPrefix(s, p) == Len(s) >= Len(p) /\ SubSeq(s, 1, Len(p)) = p

\* the digits atoi consumes: the longest run of digits at the front of s
RECURSIVE DigitRun(_)
DigitRun(s) ==
  IF s = <<>> \/ Head(s) \notin Digits THEN <<>>
  ELSE <<Head(s)>> \o DigitRun(Tail(s))

RECURSIVE DigitsValue(_, _)
DigitsValue(ds, acc) ==
  IF ds = <<>> THEN acc ELSE DigitsValue(Tail(ds), acc * 10 + DigitVal(Head(ds)))

\* atoi: optional sign, then digits; anything else ends the number
atoi(s) ==
  IF s # <<>> /\ Head(s) = "-" THEN 0 - DigitsValue(DigitRun(Tail(s)), 0)
  ELSE IF s # <<>> /\ Head(s) = "+" THEN DigitsValue(DigitRun(Tail(s)), 0)
  ELSE DigitsValue(DigitRun(s), 0)

(***************************************************************************)
(* Integer helpers on uint64_t values held as four 16-bit words.           *)
(***************************************************************************)
RECURSIVE Pow2(_)
Pow2(k) == IF k = 0 THEN 1 ELSE 2 * Pow2(k - 1)

\* bit k (1 = most significant, 64 = least significant) of a word tuple
BitOf(ws, k) ==
  LET w == ws[((k - 1) \div 16) + 1]
      p == 15 - ((k - 1) % 16)
  IN (w \div Pow2(p)) % 2

\* the number held in bits lo..hi of a word tuple (at most 24 bits)
RECURSIVE BitsValue(_, _, _)
BitsValue(ws, lo, hi) ==
  IF lo > hi THEN 0 ELSE 2 * BitsValue(ws, lo, hi - 1) + BitOf(ws, hi)

\* position of the leading one bit, 65 when the value is zero
LeadingBit(ws) ==
  IF \A k \in 1..64 : BitOf(ws, k) = 0 THEN 65
  ELSE CHOOSE k \in 1..64 :
         BitOf(ws, k) = 1 /\ \A j \in 1..(k - 1) : BitOf(ws, j) = 0

\* two's complement negation of a 64-bit value: ~x + 1
Neg64(ws) ==
  LET c4 == (65535 - ws[4]) + 1
      c3 == (65535 - ws[3]) + (c4 \div 65536)
      c2 == (65535 - ws[2]) + (c3 \div 65536)
      c1 == (65535 - ws[1]) + (c2 \div 65536)
  IN <<c1 % 65536, c2 % 65536, c3 % 65536, c4 % 65536>>

(***************************************************************************)
(* Unsigned arithmetic on word tuples (most significant word first); the   *)
(* result has the width of the operands and wraps around like C unsigned   *)
(* arithmetic of that width.                                               *)
(***************************************************************************)
\* the words k..Len(a) of a + b and the carry out of them
RECURSIVE AddFrom(_, _, _)
AddFrom(a, b, k) ==
  IF k > Len(a) THEN [carry |-> 0, ws |-> <<>>]
  ELSE LET low == AddFrom(a, b, k + 1)
           sum == a[k] + b[k] + low.carry
       IN [carry |-> sum \div 65536, ws |-> <<sum % 65536>> \o low.ws]

\* a + b
AddWords(a, b) == AddFrom(a, b, 1).ws

\* the words k..Len(a) of a * m and the carry out of them
RECURSIVE MulFrom(_, _, _)
MulFrom(a, m, k) ==
  IF k > Len(a) THEN [carry |-> 0, ws |-> <<>>]
  ELSE LET low == MulFrom(a, m, k + 1)
           prod == a[k] * m + low.carry
       IN [carry |-> prod \div 65536, ws |-> <<prod % 65536>> \o low.ws]

\* a * m for a factor m below 2^15
MulSmall(a, m) == MulFrom(a, m, 1).ws

\* a * 10000000, as * 10000 * 1000
MulTicks(a) == MulSmall(MulSmall(a, 10000), 1000)

\* 11644473600ULL, the seconds from 1601 to 1970, as a uint64_t
UNIX_EPOCH_OFFSET == <<0, 2, 46608, 37120>>

(***************************************************************************)
(* C conversions.                                                          *)
(***************************************************************************)
\* (float)x for a uint64_t x: round to nearest, ties to even, 24 bits
FloatOfU64(ws) ==
  LET lead == LeadingBit(ws)
      len == 65 - lead
  IN IF len <= 24 THEN [sig |-> BitsValue(ws, 41, 64), exp |-> 0]
     ELSE LET sig0 == BitsValue(ws, lead, lead + 23)
              rnd == BitOf(ws, lead + 24)
              sticky == \E k \in (lead + 25)..64 : BitOf(ws, k) = 1
              up == rnd = 1 /\ (sticky \/ sig0 % 2 = 1)
              sig1 == IF up THEN sig0 + 1 ELSE sig0
          IN IF sig1 = Pow2(24) THEN [sig |-> Pow2(23), exp |-> len - 23]
             ELSE [sig |-> sig1, exp |-> len - 24]

\* a float: (-1)^neg * sig * 2^exp * mul * 10^(-dec)
FloatVariant(neg, ws, mul, dec) ==
  LET f == FloatOfU64(ws)
  IN [type |-> "Float", neg |-> neg /\ f.sig # 0, sig |-> f.sig,
      exp |-> f.exp, mul |-> mul, dec |-> dec]

\* (float)((int64_t)x) * scale for a uint64_t x
FloatOfInt64(ws, mul, dec) ==
  IF ws[1] >= 32768 THEN FloatVariant(TRUE, Neg64(ws), mul, dec)
  ELSE FloatVariant(FALSE, ws, mul, dec)

\* (int32_t)x widened back to 64 bits (sign extension of the low 32 bits)
SignExtend32(ws) ==
  IF ws[3] >= 32768 THEN <<65535, 65535, ws[3], ws[4]>>
  ELSE <<0, 0, ws[3], ws[4]>>

\* (UA_Int32)x for a uint64_t x
Int32Of(ws) ==
  (IF ws[3] >= 32768 THEN ws[3] - 65536 ELSE ws[3]) * 65536 + ws[4]

\* UA_Variant_init
EmptyVariant == [type |-> "Empty"]

(***************************************************************************)
(* process_modbus_value_formatted: regs is the tuple of words the read     *)
(* fetched (regs[1] is the C regs[0]); the result carries the return       *)
(* value, the variant and the warning the function logs.                   *)
(***************************************************************************)
\* lines 48-62: big-endian reassembly into the uint64_t raw_value
RawValue(regs, data_type) ==
  CASE data_type \in {"U16", "S16"} -> <<0, 0, 0, regs[1]>>
    [] data_type \in {"U32", "S32"} -> <<0, 0, regs[1], regs[2]>>
    [] data_type = "U64" -> <<regs[1], regs[2], regs[3], regs[4]>>

\* the is_nan flag with the S16 register compared to the U16 sentinel
IsNanWrongS16(regs, data_type) ==
  CASE data_type = "U16" -> regs[1] = SMA_NAN_U16
    [] data_type = "S16" -> regs[1] = SMA_NAN_U16
    [] data_type = "U32" -> <<0, 0, regs[1], regs[2]>> = SMA_NAN_U32
    [] data_type = "S32" -> <<0, 0, regs[1], regs[2]>> = SMA_NAN_S32
    [] data_type = "U64" -> <<regs[1], regs[2], regs[3], regs[4]>> = SMA_NAN_U64

\* lines 48-62: the is_nan flag
IsNan(regs, data_type) ==
  CASE data_type = "U16" -> regs[1] = SMA_NAN_U16
    [] data_type = "S16" -> regs[1] = SMA_NAN_S16
    [] data_type = "U32" -> RawValue(regs, data_type) = SMA_NAN_U32
    [] data_type = "S32" -> RawValue(regs, data_type) = SMA_NAN_S32
    [] data_type = "U64" -> RawValue(regs, data_type) = SMA_NAN_U64

\* a FIXn branch that ignores the digits after "FIX"
DecodeFIXUnscaled(raw_value, data_type, format) ==
  IF data_type \in {"S16", "S32"}
  THEN FloatOfInt64(raw_value, 1, 0)
  ELSE FloatVariant(FALSE, raw_value, 1, 0)

\* lines 79-96: the FIXn branch
DecodeFIX(raw_value, data_type, format) ==
  LET decimal_places == IF Len(format) > 3 THEN atoi(SubSeq(format, 4, Len(format))) ELSE 0
      dec == IF decimal_places > 0 THEN decimal_places ELSE 0
  IN IF data_type \in {"S16", "S32"}
     THEN FloatOfInt64(raw_value, 1, dec)
     ELSE FloatVariant(FALSE, raw_value, 1, dec)

\* an FW branch that prints the release byte as a number
DecodeFWNumericRelease(raw_value) ==
  [type |-> "String",
   str |-> Decimal(raw_value[3] \div 256) \o <<".">> \o Decimal(raw_value[3] % 256)
             \o <<".">> \o Decimal(raw_value[4] \div 256) \o <<".">>
             \o Decimal(raw_value[4] % 256)]

\* lines 104-124: the FW branch, "%d.%d.%d.%c" of the four bytes of
\* (uint32_t)raw_value; the text never exceeds the 32-byte buffer
DecodeFW(raw_value) ==
  LET major == raw_value[3] \div 256
      minor == raw_value[3] % 256
      build == raw_value[4] \div 256
      release == raw_value[4] % 256
      release_char == CASE release = 3 -> "B" [] release = 4 -> "R" [] OTHER -> "?"
  IN [type |-> "String",
      str |-> Decimal(major) \o <<".">> \o Decimal(minor) \o <<".">>
                \o Decimal(build) \o <<".">> \o <<release_char>>]

\* a TEMP branch that reads every declared type as unsigned
DecodeTEMPUnsigned(raw_value, data_type) ==
  FloatVariant(FALSE, raw_value, 1, 1)

\* lines 139-147: the TEMP branch
DecodeTEMP(raw_value, data_type) ==
  IF data_type = "S32" THEN FloatOfInt64(SignExtend32(raw_value), 1, 1)
  ELSE FloatVariant(FALSE, raw_value, 1, 1)

\* a DT branch that adds the offset in 32 bits
DecodeDTNarrow(raw_value) ==
  LET sum == AddWords(<<raw_value[3], raw_value[4]>>, <<UNIX_EPOCH_OFFSET[3], UNIX_EPOCH_OFFSET[4]>>)
  IN [type |-> "DateTime", ticks |-> MulTicks(<<0, 0>> \o sum)]

\* lines 126-131: the DT and TM branch, (unix_timestamp + 11644473600ULL) *
\* 10000000ULL in unsigned 64-bit arithmetic, stored in the int64_t UA_DateTime
DecodeDT(raw_value) ==
  LET unix_timestamp == <<0, 0, raw_value[3], raw_value[4]>>
  IN [type |-> "DateTime", ticks |-> MulTicks(AddWords(unix_timestamp, UNIX_EPOCH_OFFSET))]

\* a decoder that fails on a format it does not know
process_modbus_value_strict(regs, data_type, format) ==
  IF data_type \notin DeclaredTypes
  THEN [ok |-> FALSE, value |-> EmptyVariant, warn |-> "unsupported_type"]
  ELSE IF IsNan(regs, data_type)
  THEN [ok |-> FALSE, value |-> EmptyVariant, warn |-> "none"]
  ELSE IF format = NoFormat
  THEN [ok |-> FALSE, value |-> EmptyVariant, warn |-> "no_format"]
  ELSE LET raw_value == RawValue(regs, data_type) IN
    IF HasPrefix(format, FmtFIX)
    THEN [ok |-> TRUE, value |-> DecodeFIX(raw_value, data_type, format), warn |-> "none"]
    ELSE IF format = FmtENUM
    THEN [ok |-> TRUE, value |-> [type |-> "Int32", val |-> Int32Of(raw_value)], warn |-> "none"]
    ELSE IF format = FmtFW
    THEN [ok |-> TRUE, value |-> DecodeFW(raw_value), warn |-> "none"]
    ELSE IF format = FmtDT \/ format = FmtTM
    THEN [ok |-> TRUE,
          value |-> DecodeDT(raw_value),
          warn |-> "none"]
    ELSE IF format = FmtDuration
    THEN [ok |-> TRUE, value |-> FloatVariant(FALSE, raw_value, 1000, 0), warn |-> "none"]
    ELSE IF format = FmtTEMP
    THEN [ok |-> TRUE, value |-> DecodeTEMP(raw_value, data_type), warn |-> "none"]
    ELSE [ok |-> FALSE, value |-> EmptyVariant, warn |-> "unknown_format"]

\* lines 41-157
process_modbus_value_formatted(regs, data_type, format) ==
  IF data_type \notin DeclaredTypes
  THEN [ok |-> FALSE, value |-> EmptyVariant, warn |-> "unsupported_type"]
  ELSE IF IsNan(regs, data_type)
  THEN [ok |-> FALSE, value |-> EmptyVariant, warn |-> "none"]
  ELSE IF format = NoFormat
  THEN [ok |-> FALSE, value |-> EmptyVariant, warn |-> "no_format"]
  ELSE LET raw_value == RawValue(regs, data_type) IN
    IF HasPrefix(format, FmtFIX)
    THEN [ok |-> TRUE, value |-> DecodeFIX(raw_value, data_type, format), warn |-> "none"]
    ELSE IF format = FmtENUM
    THEN [ok |-> TRUE, value |-> [type |-> "Int32", val |-> Int32Of(raw_value)], warn |-> "none"]
    ELSE IF format = FmtFW
    THEN [ok |-> TRUE, value |-> DecodeFW(raw_value), warn |-> "none"]
    ELSE IF format = FmtDT \/ format = FmtTM
    THEN [ok |-> TRUE,
          value |-> DecodeDT(raw_value),
          warn |-> "none"]
    ELSE IF format = FmtDuration
    THEN [ok |-> TRUE, value |-> FloatVariant(FALSE, raw_value, 1000, 0), warn |-> "none"]
    ELSE IF format = FmtTEMP
    THEN [ok |-> TRUE, value |-> DecodeTEMP(raw_value, data_type), warn |-> "none"]
    ELSE [ok |-> TRUE, value |-> FloatVariant(FALSE, raw_value, 1, 0), warn |-> "unknown_format"]

\* a read that fetches one register whatever the declared type
NumRegsSingle(data_type) ==
  IF data_type \in {"S32", "U32", "FLOAT32"} THEN 1
  ELSE IF data_type = "U64" THEN 1
  ELSE 1

\* read_modbus_data lines 42-47: the number of registers one read fetches
NumRegs(data_type) ==
  IF data_type \in {"S32", "U32", "FLOAT32"} THEN 2
  ELSE IF data_type = "U64" THEN 4
  ELSE 1

(***************************************************************************)
(* Inputs of the model: mapping tables and register words.                 *)
(***************************************************************************)
MapU16 == [data_type |-> "U16", format |-> FmtFIX0, poll_interval_ms |-> 1000]
MapS16 == [data_type |-> "S16", format |-> FmtFIX1, poll_interval_ms |-> 100]
MapNoFormat == [data_type |-> "U16", format |-> NoFormat, poll_interval_ms |-> 1000]
MapFloat32 == [data_type |-> "FLOAT32", format |-> FmtFIX0, poll_interval_ms |-> 100]
MapRaw == [data_type |-> "U16", format |-> FmtRAW, poll_interval_ms |-> 1000]

\* the mapping tables load_config_from_yaml may hand to main
Configs ==
  {<<MapS16, MapU16>>, <<MapU16, MapS16>>, <<MapFloat32, MapNoFormat>>,
   <<MapFloat32, MapRaw>>}

\* register words the device may answer with, in the run loop
RunWords == {32768, 65535}

\* register words the decoder is exercised with
Words == {0, 1, 3, 258, 772, 12345, 32768, 53191, 65386, 65534, 65535}

\* instants at which the wall clock is observed (absolute time)
TimeGrid == {0, 100, 200, 999, 1000, 1100, 5000, 5100, MaxClock}

(***************************************************************************)
(* State.                                                                  *)
(***************************************************************************)
VARIABLES
  pc,                   \* position of main
  exit_status,          \* value main returned, -1 while it runs
  config,               \* config->mappings, immutable once loaded
  modbus_ctx,           \* "NULL" or "ctx"
  clock,                \* the wall clock gettimeofday reads
  current_time_ms,      \* main's sample of the clock for this pass
  next_poll_times,      \* per mapping index, the next time it is due
  i,                    \* index of the for loop over the mappings
  regs,                 \* words fetched by the last successful read
  read_rc,              \* result of the last read_modbus_data of this pass
                        \* (0, -1, -2), 1 while none has returned
  shutdown_requested,   \* sig_atomic_t flag set by stop_handler
  shutdown_signal_num,  \* sig_atomic_t signal number set by stop_handler
  node_value,           \* per mapping index, the value of its OPC UA node
  historyNodes,         \* the HistoryData array
  last_log,             \* the last line main or the Modbus client logged
  rel,                  \* TRUE: times are kept relative to the last sample
  dec,                  \* decoder exercised on its own
  opcua_server,         \* "NULL", "new", "running" or "deleted"
  hist,                 \* historyMutex and the callers of the history functions
  live_ctx,             \* modbus_t contexts allocated and not yet freed
  last_read,            \* per mapping index, the instant its last read was
                        \* issued (-1: never); kept only while .on
  log_file              \* the logger's FILE*: "NULL", "file" or "stdout"

vars ==
  <<pc, exit_status, config, modbus_ctx, clock, current_time_ms,
    next_poll_times, i, regs, read_rc, shutdown_requested,
    shutdown_signal_num, node_value, historyNodes, last_log, rel, dec, opcua_server, hist, live_ctx, last_read, log_file>>

num_mappings == Len(config)
Indices == 0..(num_mappings - 1)
Mapping(k) == config[k + 1]

Max(a, b) == IF a >= b THEN a ELSE b
Min(a, b) == IF a <= b THEN a ELSE b

\* the longest poll interval of the table
RECURSIVE MaxInterval(_)
MaxInterval(ms) ==
  IF ms = <<>> THEN 0 ELSE Max(Head(ms).poll_interval_ms, MaxInterval(Tail(ms)))

(***************************************************************************)
(* Time.  A call that takes at least d milliseconds moves the clock to an  *)
(* instant not earlier than clock + d.  With absolute time the instants    *)
(* are those of TimeGrid.  With relative time (rel) the clock is the time  *)
(* elapsed since the last sample, the poll timers are kept relative to     *)
(* that sample, and the elapsed time saturates once every timer has        *)
(* expired.  The due test of the run loop only compares the two, so both   *)
(* describe the same program; relative time makes an endless run finite.   *)
(***************************************************************************)
Later(d) == {t \in TimeGrid : t >= clock + d}

Elapse(d) ==
  IF rel
  THEN {Min(clock + d, MaxInterval(config)), Min(clock + d + TICK_MS, MaxInterval(config))}
  ELSE {t \in Later(d) : Cardinality({u \in Later(d) : u < t}) <= 1}

\* the read instants are not kept
LastReadOff == [on |-> FALSE, at |-> <<>>]

\* no mapping has been read yet
LastReadNever == [on |-> TRUE, at |-> [k \in Indices |-> -1]]

\* read_modbus_data has been called for mapping k at the present instant
MarkRead(k) == IF last_read.on THEN [last_read EXCEPT !.at[k] = clock] ELSE last_read

\* add_opcua_nodes: the initial value of a node, by format
InitialNodeValue(m) ==
  CASE m.format = FmtENUM -> [type |-> "Int32", val |-> 0]
    [] m.format = FmtFW -> [type |-> "String", str |-> <<>>]
    [] m.format \in {FmtDT, FmtTM} -> [type |-> "DateTime", ticks |-> <<0, 0, 0, 0>>]
    [] OTHER -> [type |-> "Float", neg |-> FALSE, sig |-> 0, exp |-> 0, mul |-> 1, dec |-> 0]

\* log_message: the message and the mapping index it is about (-1: none)
Log(msg, idx) == [msg |-> msg, idx |-> idx]

DecOff ==
  [pc |-> "off", data_type |-> "U16", format |-> NoFormat, enum_values |-> <<>>,
   regs |-> <<>>, out |-> EmptyVariant, label |-> "none"]

\* historyMutex unlocked and no caller of the history functions
HistOff ==
  [mutex |-> 0, threads |-> <<>>, appended |-> <<>>, updates |-> 0, maxUpdates |-> 0,
   block |-> 0]

\* timers that start at one poll interval instead of zero
InitialPollTimeDeferred(k) == Mapping(k).poll_interval_ms

\* line 194: calloc zeroes the poll timers
InitialPollTime(k) == 0

\* the state before main runs, but for the record of the read instants
InitFrame(tables) ==
  /\ pc = "start"
  /\ exit_status = -1
  /\ config \in tables
  /\ modbus_ctx = "NULL"
  /\ clock = 0
  /\ current_time_ms = 0
  /\ next_poll_times = [k \in Indices |-> InitialPollTime(k)]
  /\ i = 0
  /\ regs = <<>>
  /\ read_rc = 1
  /\ shutdown_requested = 0
  /\ shutdown_signal_num = 0
  /\ node_value = [k \in Indices |-> InitialNodeValue(Mapping(k))]
  /\ last_log = Log("none", -1)
  /\ opcua_server = "NULL"
  /\ live_ctx = 0
  /\ log_file = "NULL"

InitCommon(tables) ==
  /\ InitFrame(tables)
  /\ last_read = LastReadOff

Init ==
  /\ InitCommon(Configs)
  /\ historyNodes = <<>>
  /\ rel = FALSE
  /\ dec = DecOff
  /\ hist = HistOff

InitLive ==
  /\ InitCommon(Configs)
  /\ historyNodes = <<>>
  /\ rel = TRUE
  /\ dec = DecOff
  /\ hist = HistOff

(***************************************************************************)
(* The signal handler.  It is installed by opcua_server_init and runs to   *)
(* completion on main's thread, between two steps of main or inside a      *)
(* blocking call (see the Interrupted outcomes below).                     *)
(***************************************************************************)
HandlersInstalled == pc \notin {"start", "server_init", "exited", "crashed"}

\* a handler that sets the flag and records no signal number
stop_handlerFlagOnly(sig) ==
  /\ HandlersInstalled
  /\ shutdown_requested' = 1
  /\ UNCHANGED <<pc, exit_status, config, modbus_ctx, clock, current_time_ms,
                 next_poll_times, i, regs, read_rc, shutdown_signal_num,
                 node_value, historyNodes, last_log, rel, dec, opcua_server,
                 hist, live_ctx, last_read, log_file>>

\* lines 335-338: the signal number is stored first, then the flag
stop_handler(sig) ==
  /\ HandlersInstalled
  /\ shutdown_signal_num' = sig
  /\ shutdown_requested' = 1
  /\ UNCHANGED <<pc, exit_status, config, modbus_ctx, clock, current_time_ms,
                 next_poll_times, i, regs, read_rc, node_value, historyNodes,
                 last_log, rel, dec, opcua_server, hist, live_ctx, last_read, log_file>>

opcua_shutdown_requested == shutdown_requested # 0

(***************************************************************************)
(* main, start-up (lines 160-215).                                         *)
(***************************************************************************)
\* what the start-up of main can come to: a missing argument (line 160);
\* load_config_from_yaml returning NULL (line 167) after its log_message at
\* LOG_LEVEL_ERROR (config_parser.cpp, lines 27 and 85), which passes the
\* level filter and does fprintf(log_file, ...) with log_file still NULL:
\* undefined behaviour that either returns or kills the process; logger_init
\* returning -1 (line 172); success with the log file of the configuration
StartOutcomes == {"usage", "config_error", "config_error_crash", "logger_failed", "ok"}

\* logger.c, line 12: log_file = fopen(...) that failed
fopen_failed == "NULL"

\* a start-up failure that returns 0
StartReturnsZero ==
  /\ pc = "start"
  /\ \E outcome \in StartOutcomes :
       IF outcome = "usage"
       THEN /\ pc' = "exited" /\ exit_status' = EXIT_SUCCESS
            /\ UNCHANGED <<last_log, log_file>>
       ELSE IF outcome = "config_error"
       THEN /\ pc' = "exited" /\ exit_status' = EXIT_SUCCESS
            /\ last_log' = Log("config_error", -1)
            /\ log_file' = log_file
       ELSE IF outcome = "config_error_crash"
       THEN /\ pc' = "crashed" /\ exit_status' = exit_status
            /\ last_log' = Log("config_error", -1)
            /\ log_file' = log_file
       ELSE IF outcome = "logger_failed"
       THEN /\ pc' = "exited" /\ exit_status' = EXIT_SUCCESS
            /\ last_log' = last_log
            /\ log_file' = fopen_failed
       ELSE /\ pc' = "server_init" /\ exit_status' = exit_status
            /\ last_log' = Log("config_loaded", -1)
            /\ log_file' = "file"
  /\ UNCHANGED <<config, modbus_ctx, clock, current_time_ms, next_poll_times,
                 i, regs, read_rc, shutdown_requested, shutdown_signal_num,
                 node_value, historyNodes, rel, dec, opcua_server, hist,
                 live_ctx, last_read>>

\* lines 160-177: argument check, load_config_from_yaml, logger_init, the
\* line "Configuration loaded successfully"
Start ==
  /\ pc = "start"
  /\ \E outcome \in StartOutcomes :
       IF outcome = "usage"
       THEN /\ pc' = "exited" /\ exit_status' = EXIT_FAILURE
            /\ UNCHANGED <<last_log, log_file>>
       ELSE IF outcome = "config_error"
       THEN /\ pc' = "exited" /\ exit_status' = EXIT_FAILURE
            /\ last_log' = Log("config_error", -1)
            /\ log_file' = log_file
       ELSE IF outcome = "config_error_crash"
       THEN /\ pc' = "crashed" /\ exit_status' = exit_status
            /\ last_log' = Log("config_error", -1)
            /\ log_file' = log_file
       ELSE IF outcome = "logger_failed"
       THEN /\ pc' = "exited" /\ exit_status' = EXIT_FAILURE
            /\ last_log' = last_log
            /\ log_file' = fopen_failed
       ELSE /\ pc' = "server_init" /\ exit_status' = exit_status
            /\ last_log' = Log("config_loaded", -1)
            /\ log_file' = "file"
  /\ UNCHANGED <<config, modbus_ctx, clock, current_time_ms, next_poll_times,
                 i, regs, read_rc, shutdown_requested, shutdown_signal_num,
                 node_value, historyNodes, rel, dec, opcua_server, hist,
                 live_ctx, last_read>>

\* opcua_server_init (installs the handlers), add_opcua_nodes
ServerInit ==
  /\ pc = "server_init"
  /\ pc' = "server_startup"
  /\ opcua_server' = "new"
  /\ node_value' = [k \in Indices |-> InitialNodeValue(Mapping(k))]
  /\ UNCHANGED <<exit_status, config, modbus_ctx, clock, current_time_ms,
                 next_poll_times, i, regs, read_rc, shutdown_requested,
                 shutdown_signal_num, historyNodes, last_log, rel, dec, hist, live_ctx, last_read, log_file>>

\* UA_Server_run_startup, calloc of next_poll_times
ServerStartup ==
  /\ pc = "server_startup"
  /\ \E ok \in BOOLEAN :
       IF ok
       THEN /\ pc' = "loop_top"
            /\ exit_status' = exit_status
            /\ opcua_server' = "running"
            /\ next_poll_times' = [k \in Indices |-> InitialPollTime(k)]
       ELSE /\ pc' = "exited"
            /\ exit_status' = EXIT_FAILURE
            /\ opcua_server' = "deleted"
            /\ next_poll_times' = next_poll_times
  /\ UNCHANGED <<config, modbus_ctx, clock, current_time_ms, i, regs, read_rc,
                 shutdown_requested, shutdown_signal_num, node_value,
                 historyNodes, last_log, rel, dec, hist, live_ctx, last_read, log_file>>

(***************************************************************************)
(* main, the run loop (lines 217-293).                                     *)
(***************************************************************************)
\* a while condition that does not test the shutdown flag
LoopTopIgnoresShutdown ==
  /\ pc = "loop_top"
  /\ pc' = IF modbus_ctx = "NULL" THEN "connect" ELSE "sample"
  /\ UNCHANGED <<exit_status, config, modbus_ctx, clock, current_time_ms,
                 next_poll_times, i, regs, read_rc, shutdown_requested,
                 shutdown_signal_num, node_value, historyNodes, last_log, rel,
                 dec, opcua_server, hist, live_ctx, last_read, log_file>>

\* line 217-218: the while condition and the test of modbus_ctx
LoopTop ==
  /\ pc = "loop_top"
  /\ pc' = IF opcua_shutdown_requested THEN "drain"
           ELSE IF modbus_ctx = "NULL" THEN "connect"
           ELSE "sample"
  /\ UNCHANGED <<exit_status, config, modbus_ctx, clock, current_time_ms,
                 next_poll_times, i, regs, read_rc, shutdown_requested,
                 shutdown_signal_num, node_value, historyNodes, last_log, rel, dec, opcua_server, hist, live_ctx, last_read, log_file>>

\* line 219, modbus_tcp_connect returning a connected context (the modbus_t
\* that modbus_new_tcp allocated)
ConnectOk ==
  /\ pc = "connect"
  /\ modbus_ctx' = "ctx"
  /\ clock' \in Elapse(0)
  /\ live_ctx' = live_ctx + 1
  /\ UNCHANGED <<last_read, log_file>>
  /\ pc' = "sample"
  /\ last_log' = Log("connected", -1)
  /\ UNCHANGED <<exit_status, config, current_time_ms, next_poll_times, i,
                 regs, read_rc, shutdown_requested, shutdown_signal_num,
                 node_value, historyNodes, rel, dec, opcua_server, hist>>

\* line 219, modbus_tcp_connect failing: the context it allocated is freed
\* before it returns NULL, so the number of live contexts is unchanged
ConnectFail ==
  /\ pc = "connect"
  /\ modbus_ctx' = "NULL"
  /\ clock' \in Elapse(0)
  /\ pc' = "connect_failed"
  /\ last_log' = Log("connection_failed", -1)
  /\ UNCHANGED <<exit_status, config, current_time_ms, next_poll_times, i,
                 regs, read_rc, shutdown_requested, shutdown_signal_num,
                 node_value, historyNodes, rel, dec, opcua_server, hist, live_ctx, last_read, log_file>>

\* line 219, modbus_connect interrupted by a termination signal (EINTR): the
\* context is freed and NULL returned without a log line
ConnectInterrupted(sig) ==
  /\ pc = "connect"
  /\ shutdown_signal_num' = sig
  /\ shutdown_requested' = 1
  /\ modbus_ctx' = "NULL"
  /\ clock' \in Elapse(0)
  /\ pc' = "connect_failed"
  /\ UNCHANGED <<exit_status, config, current_time_ms, next_poll_times, i,
                 regs, read_rc, node_value, historyNodes, last_log, rel, dec, opcua_server, hist, live_ctx, last_read, log_file>>

\* a failed connect that ends the run loop whether or not shutdown is set
ConnectFailedGivesUp ==
  /\ pc = "connect_failed"
  /\ pc' = "drain"
  /\ UNCHANGED <<exit_status, config, modbus_ctx, clock, current_time_ms,
                 next_poll_times, i, regs, read_rc, shutdown_requested,
                 shutdown_signal_num, node_value, historyNodes, last_log, rel,
                 dec, opcua_server, hist, live_ctx, last_read, log_file>>

\* lines 220-222: the shutdown check after a connect that returned NULL
ConnectFailed ==
  /\ pc = "connect_failed"
  /\ pc' = IF opcua_shutdown_requested THEN "drain" ELSE "backoff"
  /\ UNCHANGED <<exit_status, config, modbus_ctx, clock, current_time_ms,
                 next_poll_times, i, regs, read_rc, shutdown_requested,
                 shutdown_signal_num, node_value, historyNodes, last_log, rel, dec, opcua_server, hist, live_ctx, last_read, log_file>>

\* a backoff that goes straight to the next connect attempt
BackoffThenConnect ==
  /\ pc = "backoff"
  /\ clock' \in Elapse(BACKOFF_MS)
  /\ pc' = "connect"
  /\ UNCHANGED <<exit_status, config, modbus_ctx, current_time_ms,
                 next_poll_times, i, regs, read_rc, shutdown_requested,
                 shutdown_signal_num, node_value, historyNodes, last_log, rel,
                 dec, opcua_server, hist, live_ctx, last_read, log_file>>

\* lines 223-224: sleep(5); continue
Backoff ==
  /\ pc = "backoff"
  /\ clock' \in Elapse(BACKOFF_MS)
  /\ pc' = "loop_top"
  /\ UNCHANGED <<exit_status, config, modbus_ctx, current_time_ms,
                 next_poll_times, i, regs, read_rc, shutdown_requested,
                 shutdown_signal_num, node_value, historyNodes, last_log, rel, dec, opcua_server, hist, live_ctx, last_read, log_file>>

\* lines 228-230: current_time_ms = get_time_ms(); i = 0
Sample ==
  /\ pc = "sample"
  /\ IF rel
     THEN /\ current_time_ms' = 0
          /\ clock' = 0
          /\ next_poll_times' = [k \in Indices |-> Max(0, next_poll_times[k] - clock)]
     ELSE /\ current_time_ms' = clock
          /\ clock' = clock
          /\ next_poll_times' = next_poll_times
  /\ i' = 0
  /\ read_rc' = 1
  /\ pc' = "for_check"
  /\ UNCHANGED <<exit_status, config, modbus_ctx, regs, shutdown_requested,
                 shutdown_signal_num, node_value, historyNodes, last_log, rel,
                 dec, opcua_server, hist, live_ctx, last_read, log_file>>

\* a due test that is late by one millisecond
IsDueStrict(k) == next_poll_times[k] < current_time_ms

\* line 234: the due test, !(current_time_ms < next_poll_times[k])
IsDue(k) == ~(current_time_ms < next_poll_times[k])

\* a timer that is left alone when the mapping is polled
NextPollTimeUnchanged(k) == next_poll_times[k]

\* a timer that is advanced from its previous value instead of the clock
NextPollTimeDrift(k) == next_poll_times[k] + Mapping(k).poll_interval_ms

\* line 238: the next poll time of a mapping that is polled now
NextPollTime(k) == current_time_ms + Mapping(k).poll_interval_ms

\* lines 230-238: loop condition, shutdown check, due test, timer update
ForCheck ==
  /\ pc = "for_check"
  /\ IF ~(i < num_mappings) \/ opcua_shutdown_requested
     THEN pc' = "iterate" /\ i' = i /\ next_poll_times' = next_poll_times
     ELSE IF ~IsDue(i)
     THEN pc' = "for_check" /\ i' = i + 1 /\ next_poll_times' = next_poll_times
     ELSE /\ pc' = "read"
          /\ i' = i
          /\ next_poll_times' = [next_poll_times EXCEPT ![i] = NextPollTime(i)]
  /\ UNCHANGED <<exit_status, config, modbus_ctx, clock, current_time_ms, regs,
                 read_rc, shutdown_requested, shutdown_signal_num, node_value,
                 historyNodes, last_log, rel, dec, opcua_server, hist, live_ctx, last_read, log_file>>

\* line 241, read_modbus_data returning 0 with the words of the mapping
ReadOk ==
  /\ pc = "read"
  /\ regs' \in [1..NumRegs(Mapping(i).data_type) -> RunWords]
  /\ read_rc' = 0
  /\ clock' \in Elapse(0)
  /\ pc' = "decode"
  /\ UNCHANGED <<exit_status, config, modbus_ctx, current_time_ms,
                 next_poll_times, i, shutdown_requested, shutdown_signal_num,
                 node_value, historyNodes, last_log, rel, dec, opcua_server, hist, live_ctx, log_file>>
  /\ last_read' = MarkRead(i)

\* a read failure that logs and goes on with the next mapping (no break)
ReadFailContinues ==
  /\ pc = "read"
  /\ read_rc' = -1
  /\ modbus_ctx' = "NULL"
  /\ clock' \in Elapse(0)
  /\ live_ctx' = live_ctx - 1
  /\ last_read' = MarkRead(i)
  /\ log_file' = log_file
  /\ last_log' = Log("read_failed", i)
  /\ i' = i + 1
  /\ pc' = "for_check"
  /\ UNCHANGED <<exit_status, config, current_time_ms, next_poll_times, regs,
                 shutdown_requested, shutdown_signal_num, node_value,
                 historyNodes, rel, dec, opcua_server, hist>>

\* line 241, read_modbus_data returning -1; lines 282-288: close, free, break
ReadFail ==
  /\ pc = "read"
  /\ read_rc' = -1
  /\ modbus_ctx' = "NULL"
  /\ clock' \in Elapse(0)
  /\ live_ctx' = live_ctx - 1
  /\ last_read' = MarkRead(i)
  /\ log_file' = log_file
  /\ last_log' = Log("read_failed", i)
  /\ pc' = "iterate"
  /\ UNCHANGED <<exit_status, config, current_time_ms, next_poll_times, i,
                 regs, shutdown_requested, shutdown_signal_num, node_value,
                 historyNodes, rel, dec, opcua_server, hist>>

\* an interrupted read reported as a failed one: -1, logged, connection closed
ReadInterruptedAsFailure(sig) ==
  /\ pc = "read"
  /\ shutdown_signal_num' = sig
  /\ shutdown_requested' = 1
  /\ read_rc' = -1
  /\ modbus_ctx' = "NULL"
  /\ live_ctx' = live_ctx - 1
  /\ last_read' = MarkRead(i)
  /\ log_file' = log_file
  /\ clock' \in Elapse(0)
  /\ last_log' = Log("read_failed", i)
  /\ pc' = "iterate"
  /\ UNCHANGED <<exit_status, config, current_time_ms, next_poll_times, i,
                 regs, node_value, historyNodes, rel, dec, opcua_server, hist>>

\* line 241, the read interrupted by a termination signal: -2; line 281: break
ReadInterrupted(sig) ==
  /\ pc = "read"
  /\ shutdown_signal_num' = sig
  /\ shutdown_requested' = 1
  /\ read_rc' = -2
  /\ clock' \in Elapse(0)
  /\ pc' = "iterate"
  /\ UNCHANGED <<exit_status, config, modbus_ctx, current_time_ms,
                 next_poll_times, i, regs, node_value, historyNodes, last_log,
                 rel, dec, opcua_server, hist, live_ctx, log_file>>
  /\ last_read' = MarkRead(i)

\* update_opcua_node_value_typed: UA_Server_writeDataValue on the node
update_opcua_node_value_typed(nv, k, value) == [nv EXCEPT ![k] = value]

\* a decode that treats an unsupported type as a read failure: the
\* connection is closed and the pass abandoned
DecodeErrorClosesLink ==
  /\ pc = "decode"
  /\ LET out == process_modbus_value_formatted(regs, Mapping(i).data_type, Mapping(i).format)
     IN IF out.ok
        THEN /\ node_value' = update_opcua_node_value_typed(node_value, i, out.value)
             /\ last_log' = Log("wrote", i)
             /\ UNCHANGED <<modbus_ctx, live_ctx, last_read, log_file>>
             /\ i' = i + 1
             /\ pc' = "for_check"
        ELSE IF out.warn = "unsupported_type"
        THEN /\ node_value' = node_value
             /\ last_log' = Log("received_nan", i)
             /\ modbus_ctx' = "NULL"
             /\ live_ctx' = live_ctx - 1
             /\ i' = i
             /\ pc' = "iterate"
        ELSE /\ node_value' = node_value
             /\ last_log' = Log("received_nan", i)
             /\ UNCHANGED <<modbus_ctx, live_ctx, last_read, log_file>>
             /\ i' = i + 1
             /\ pc' = "for_check"
  /\ regs' = <<>>
  /\ UNCHANGED <<exit_status, config, clock, current_time_ms,
                 next_poll_times, read_rc, shutdown_requested,
                 shutdown_signal_num, historyNodes, rel, dec, opcua_server, hist,
                 last_read, log_file>>

\* lines 242-279 and the i++ of the loop: decode, then publish or skip
Decode ==
  /\ pc = "decode"
  /\ LET out == process_modbus_value_formatted(regs, Mapping(i).data_type, Mapping(i).format)
     IN IF out.ok
        THEN /\ node_value' = update_opcua_node_value_typed(node_value, i, out.value)
             /\ last_log' = Log("wrote", i)
        ELSE /\ node_value' = node_value
             /\ last_log' = Log("received_nan", i)
  /\ regs' = <<>>
  /\ i' = i + 1
  /\ pc' = "for_check"
  /\ UNCHANGED <<exit_status, config, modbus_ctx, clock, current_time_ms,
                 next_poll_times, read_rc, shutdown_requested,
                 shutdown_signal_num, historyNodes, rel, dec, opcua_server, hist, live_ctx, last_read, log_file>>

\* line 291: UA_Server_run_iterate(opcua_server, false)
Iterate ==
  /\ pc = "iterate"
  /\ pc' = "usleep"
  /\ UNCHANGED <<exit_status, config, modbus_ctx, clock, current_time_ms,
                 next_poll_times, i, regs, read_rc, shutdown_requested,
                 shutdown_signal_num, node_value, historyNodes, last_log, rel,
                 dec, opcua_server, hist, live_ctx, last_read, log_file>>

\* line 292: usleep(100 * 1000)
Usleep ==
  /\ pc = "usleep"
  /\ clock' \in Elapse(TICK_MS)
  /\ pc' = "loop_top"
  /\ UNCHANGED <<exit_status, config, modbus_ctx, current_time_ms,
                 next_poll_times, i, regs, read_rc, shutdown_requested,
                 shutdown_signal_num, node_value, historyNodes, last_log, rel,
                 dec, opcua_server, hist, live_ctx, last_read, log_file>>

\* lines 296-301: the line logged when the run loop has been left
ShutdownLogLine ==
  IF shutdown_signal_num # 0 THEN Log("received_signal", shutdown_signal_num)
  ELSE Log("shutdown_requested", -1)

\* lines 295-301: sig = opcua_shutdown_signal(); log it
LogShutdown ==
  /\ pc = "drain"
  /\ last_log' = ShutdownLogLine
  /\ pc' = "cleanup"
  /\ UNCHANGED <<exit_status, config, modbus_ctx, clock, current_time_ms,
                 next_poll_times, i, regs, read_rc, shutdown_requested,
                 shutdown_signal_num, node_value, historyNodes, rel, dec,
                 opcua_server, hist, live_ctx, last_read, log_file>>

\* logger.c, lines 49-55: logger_close closes a log file and clears log_file;
\* stdout is left as it is
logger_close == IF log_file \notin {"NULL", "stdout"} THEN "NULL" ELSE log_file

\* a drain that leaves the connection as it is
DrainKeepsContext ==
  /\ pc = "cleanup"
  /\ last_log' = Log("terminated", -1)
  /\ opcua_server' = "deleted"
  /\ exit_status' = EXIT_SUCCESS
  /\ pc' = "exited"
  /\ UNCHANGED <<config, modbus_ctx, clock, current_time_ms, next_poll_times,
                 i, regs, read_rc, shutdown_requested, shutdown_signal_num,
                 node_value, historyNodes, rel, dec, hist, live_ctx, last_read>>
  /\ log_file' = logger_close

\* lines 303-317: close and free the connection if there is one (lines
\* 304-307), stop and delete the server (UA_Server_run_shutdown,
\* UA_Server_delete), log the termination; the history functions are not
\* called
Drain ==
  /\ pc = "cleanup"
  /\ modbus_ctx' = "NULL"
  /\ live_ctx' = IF modbus_ctx # "NULL" THEN live_ctx - 1 ELSE live_ctx
  /\ last_read' = last_read
  /\ log_file' = logger_close
  /\ last_log' = Log("terminated", -1)
  /\ opcua_server' = "deleted"
  /\ exit_status' = EXIT_SUCCESS
  /\ pc' = "exited"
  /\ UNCHANGED <<config, clock, current_time_ms, next_poll_times, i, regs,
                 read_rc, shutdown_requested, shutdown_signal_num, node_value,
                 historyNodes, rel, dec, hist>>

Signals == {SIGINT, SIGTERM}

Main ==
  \/ Start
  \/ ServerInit
  \/ ServerStartup
  \/ LoopTop
  \/ ConnectOk
  \/ ConnectFail
  \/ \E sig \in Signals : ConnectInterrupted(sig)
  \/ ConnectFailed
  \/ Backoff
  \/ Sample
  \/ ForCheck
  \/ ReadOk
  \/ ReadFail
  \/ \E sig \in Signals : ReadInterrupted(sig)
  \/ Decode
  \/ Iterate
  \/ Usleep
  \/ LogShutdown
  \/ Drain

Next ==
  \/ Main
  \/ \E sig \in Signals : stop_handler(sig)

\* the run loop in absolute time
Spec == Init /\ [][Next]_vars

\* a fast mapping polled before a slow one, the instant of each read kept
PacedConfigs == {<<MapS16, MapU16>>}

InitPace ==
  /\ InitFrame(PacedConfigs)
  /\ last_read = LastReadNever
  /\ historyNodes = <<>>
  /\ rel = FALSE
  /\ dec = DecOff
  /\ hist = HistOff

\* the run loop in absolute time with the read instants recorded
PaceSpec == InitPace /\ [][Next]_vars

\* the run loop in relative time; main is never suspended for ever
LiveSpec == InitLive /\ [][Next]_vars /\ WF_vars(Main)

(***************************************************************************)
(* The decoder on its own: one mapping, one read of its registers, one     *)
(* call of process_modbus_value_formatted.                                 *)
(***************************************************************************)
runvars ==
  <<pc, exit_status, config, modbus_ctx, clock, current_time_ms,
    next_poll_times, i, regs, read_rc, shutdown_requested,
    shutdown_signal_num, node_value, historyNodes, last_log, rel,
    opcua_server, hist, live_ctx, last_read, log_file>>

\* the enum_values tables of the mapping: none, and one that lists the value
\* 1 twice and holds a value above 2^15 and a negative one
NoEnumValues == <<>>
StatusEnumValues ==
  <<[value |-> 1, name |-> "Ok"], [value |-> 65534, name |-> "Fault"],
    [value |-> 1, name |-> "Shadowed"], [value |-> -2, name |-> "Derating"]>>
EnumTables == {NoEnumValues, StatusEnumValues}

\* the label search without the break: the last matching pair wins
RECURSIVE EnumStringLast(_, _, _)
RECURSIVE EnumString(_, _, _)
EnumStringLast(enum_values, val, j) ==
  IF j > Len(enum_values) THEN "Unknown"
  ELSE LET later == EnumStringLast(enum_values, val, j + 1)
       IN IF enum_values[j].value = val /\ later = "Unknown"
          THEN enum_values[j].name ELSE later

\* main, lines 254-260: the label of val, searched from pair j on
EnumString(enum_values, val, j) ==
  IF j > Len(enum_values) THEN "Unknown"
  ELSE IF enum_values[j].value = val THEN enum_values[j].name
  ELSE EnumString(enum_values, val, j + 1)

\* main, lines 244-266: what the DEBUG line of a decoded value reports next
\* to the number: the label for an Int32 of an ENUM mapping, nothing otherwise
LoggedLabel(out, format, enum_values) ==
  IF out.ok /\ out.value.type = "Int32" /\ format = FmtENUM
  THEN EnumString(enum_values, out.value.val, 1)
  ELSE "none"

InitDec ==
  /\ InitCommon({<<MapU16, MapS16>>})
  /\ historyNodes = <<>>
  /\ hist = HistOff
  /\ rel = FALSE
  /\ dec \in {d \in [pc : {"read"}, data_type : DataTypes, format : Formats,
                      enum_values : EnumTables, regs : {<<>>},
                      out : {EmptyVariant}, label : {"none"}] :
                 d.format # FmtENUM => d.enum_values = NoEnumValues}

\* read_modbus_data fetching the registers of the mapping
DecRead ==
  /\ dec.pc = "read"
  /\ \E ws \in [1..NumRegs(dec.data_type) -> Words] :
       dec' = [dec EXCEPT !.pc = "decode", !.regs = ws]
  /\ UNCHANGED runvars

\* process_modbus_value_formatted on the fetched registers
DecDecode ==
  /\ dec.pc = "decode"
  /\ LET out == process_modbus_value_formatted(dec.regs, dec.data_type, dec.format)
     IN dec' = [dec EXCEPT !.pc = "done", !.out = out,
                           !.label = LoggedLabel(out, dec.format, dec.enum_values)]
  /\ UNCHANGED runvars

NextDec == DecRead \/ DecDecode

DecSpec == InitDec /\ [][NextDec]_vars

(***************************************************************************)
(* The history functions of opcua_server.c: the registry historyNodes      *)
(* guarded by historyMutex, one ring buffer per registered node guarded by *)
(* its own mutex.  The functions are exported; their callers are threads   *)
(* of the process, each inside at most one call.  A caller's position is   *)
(* the line it is about to execute; a pthread_mutex_lock is a step that is *)
(* enabled only while the mutex is unlocked.                               *)
(***************************************************************************)
\* the callers of the history functions: one thread, or two at a time
OneCaller == {1}
TwoCallers == {1, 2}

HistThreads == DOMAIN hist.threads

\* node ids history is registered, appended and queried for
HistNodeIds == {0, 1}

\* maxHistoryEntries of a registered node
HistCapacities == {1, 3}

\* values handed to opcua_update_history
HistValues == {[type |-> "Int32", val |-> 7]}

\* startTime and endTime of the queries
HistRanges == {<<0, MaxTime>>, <<1, 1>>}

historyMutex == hist.mutex
historyNodeCount == Len(historyNodes)

\* UA_Array_new: a zero-initialised UA_DataValue
EmptyDataValue ==
  [hasValue |-> FALSE, value |-> EmptyVariant, sourceTimestamp |-> 0,
   serverTimestamp |-> 0]

\* lines 756-763: the data value built by opcua_update_history
NewDataValue(value, now) ==
  [hasValue |-> TRUE, value |-> value, sourceTimestamp |-> now,
   serverTimestamp |-> now]

\* lines 725-731: a new entry of historyNodes
NewHistoryData(nodeId, maxHistoryEntries) ==
  [nodeId |-> nodeId,
   values |-> [k \in 1..maxHistoryEntries |-> EmptyDataValue],
   maxSize |-> maxHistoryEntries, currentSize |-> 0, currentIndex |-> 0,
   mutex |-> 0]

\* a thread that is not inside a history function; hd = 0 is NULL, hdblock
\* is the memory block hd points into
IdleThread ==
  [pc |-> "idle", nodeId |-> 0, value |-> EmptyVariant, startTime |-> 0,
   endTime |-> 0, hd |-> 0, hdblock |-> 0, idx |-> 0, dv |-> EmptyDataValue,
   count |-> 0, result |-> <<>>, status |-> "none"]

Thread(t) == hist.threads[t]

\* hd points into a block that realloc or free has released since
\* findHistoryData returned it (hist.block names the block historyNodes
\* points to now), or to an entry whose mutex has been destroyed (-1)
Stale(t) ==
  /\ Thread(t).hd # 0
  /\ IF Thread(t).hdblock # hist.block THEN TRUE
     ELSE historyNodes[Thread(t).hd].mutex = -1

\* lines 658-665: the first entry of historyNodes with this node id, 0 if none
RECURSIVE FindFrom(_, _)
FindFrom(k, nodeId) ==
  IF k > historyNodeCount THEN 0
  ELSE IF historyNodes[k].nodeId = nodeId THEN k
  ELSE FindFrom(k + 1, nodeId)

\* a range test that excludes both bounds
InRangeExclusive(dv, startTime, endTime) ==
  dv.sourceTimestamp > startTime /\ dv.sourceTimestamp < endTime

\* lines 687 and 703: the range test on a slot's source timestamp
InRange(dv, startTime, endTime) ==
  dv.sourceTimestamp >= startTime /\ dv.sourceTimestamp <= endTime

\* lines 684-690: the counting loop over slots 0 .. currentSize - 1
RECURSIVE CountFrom(_, _, _, _)
CountFrom(h, k, startTime, endTime) ==
  IF ~(k < h.currentSize) THEN 0
  ELSE (IF InRange(h.values[k + 1], startTime, endTime) THEN 1 ELSE 0)
       + CountFrom(h, k + 1, startTime, endTime)

\* lines 700-707: the copying loop, in slot order, at most count values
RECURSIVE CopyFrom(_, _, _, _, _)
CopyFrom(h, k, startTime, endTime, room) ==
  IF ~(k < h.currentSize /\ room > 0) THEN <<>>
  ELSE IF InRange(h.values[k + 1], startTime, endTime)
       THEN <<h.values[k + 1]>> \o CopyFrom(h, k + 1, startTime, endTime, room - 1)
       ELSE CopyFrom(h, k + 1, startTime, endTime, room)

histframe ==
  <<pc, exit_status, config, modbus_ctx, current_time_ms, next_poll_times, i,
    regs, read_rc, shutdown_requested, shutdown_signal_num, node_value,
    last_log, rel, dec, opcua_server, live_ctx, last_read, log_file>>

\* no caller has entered a history function yet
NoCallYet == \A t \in HistThreads : Thread(t).pc = "idle" /\ Thread(t).status = "none"

InitHist(callers, maxUpdates) ==
  /\ InitCommon({<<MapU16, MapS16>>})
  /\ historyNodes = <<>>
  /\ rel = FALSE
  /\ dec = DecOff
  /\ hist = [mutex |-> 0, threads |-> [t \in callers |-> IdleThread],
             appended |-> [n \in HistNodeIds |-> <<>>], updates |-> 0,
             maxUpdates |-> maxUpdates, block |-> 0]

\* the clock UA_DateTime_now reads moves on
Tick ==
  /\ clock < MaxTime
  /\ clock' = clock + 1
  /\ UNCHANGED <<histframe, historyNodes, hist>>

\* opcua_add_history_node, lines 715-734; the nodes are registered once
\* each, in the order of their ids, before any append or query
opcua_add_history_node(nodeId, maxHistoryEntries) ==
  /\ NoCallYet
  /\ historyMutex = 0
  /\ nodeId = historyNodeCount
  /\ historyNodes' = Append(historyNodes, NewHistoryData(nodeId, maxHistoryEntries))
  /\ UNCHANGED <<histframe, clock, hist>>

\* a caller enters opcua_update_history(server, nodeId, value)
CallUpdate(t, nodeId, value) ==
  /\ Thread(t).pc = "idle"
  /\ hist.updates < hist.maxUpdates
  /\ hist' = [hist EXCEPT !.updates = @ + 1,
                          !.threads[t] = [IdleThread EXCEPT !.pc = "u_find",
                                                            !.nodeId = nodeId,
                                                            !.value = value]]
  /\ UNCHANGED <<histframe, clock, historyNodes>>

\* a caller enters readHistoryData(..., nodeId, ..., details, result)
CallRead(t, nodeId, startTime, endTime) ==
  /\ Thread(t).pc = "idle"
  /\ hist' = [hist EXCEPT !.threads[t] = [IdleThread EXCEPT !.pc = "r_find",
                                                            !.nodeId = nodeId,
                                                            !.startTime = startTime,
                                                            !.endTime = endTime]]
  /\ UNCHANGED <<histframe, clock, historyNodes>>

\* findHistoryData line 657: pthread_mutex_lock(&historyMutex)
FindLock(t) ==
  /\ Thread(t).pc \in {"u_find", "r_find"}
  /\ historyMutex = 0
  /\ hist' = [hist EXCEPT !.mutex = t,
                          !.threads[t].pc = IF @ = "u_find" THEN "u_scan" ELSE "r_scan"]
  /\ UNCHANGED <<histframe, clock, historyNodes>>

\* findHistoryData lines 658-665, and the NULL test of the caller (lines
\* 678-679, 750-751): scan, unlock, return the entry or BadNodeIdUnknown
FindScan(t) ==
  /\ Thread(t).pc \in {"u_scan", "r_scan"}
  /\ LET hd == FindFrom(1, Thread(t).nodeId)
     IN hist' = [hist EXCEPT
                   !.mutex = 0,
                   !.threads[t].hd = hd,
                   !.threads[t].hdblock = IF hd = 0 THEN 0 ELSE hist.block,
                   !.threads[t].status = IF hd = 0 THEN "BadNodeIdUnknown" ELSE @,
                   !.threads[t].pc = IF hd = 0 THEN "idle"
                                     ELSE IF @ = "u_scan" THEN "u_lock"
                                     ELSE "r_lock"]
  /\ UNCHANGED <<histframe, clock, historyNodes>>

\* a query that does not wait for the mutex of the entry
HdLockNoWait(t) ==
  /\ Thread(t).pc \in {"u_lock", "r_lock"}
  /\ ~Stale(t)
  /\ Thread(t).pc = "u_lock" => historyNodes[Thread(t).hd].mutex = 0
  /\ historyNodes' = [historyNodes EXCEPT ![Thread(t).hd].mutex =
                        IF Thread(t).pc = "u_lock" THEN t ELSE @]
  /\ hist' = [hist EXCEPT !.threads[t].pc = IF @ = "u_lock" THEN "u_size" ELSE "r_count"]
  /\ UNCHANGED <<histframe, clock>>

\* lines 681 and 753: pthread_mutex_lock(&hd->mutex)
HdLock(t) ==
  /\ Thread(t).pc \in {"u_lock", "r_lock"}
  /\ ~Stale(t)
  /\ historyNodes[Thread(t).hd].mutex = 0
  /\ historyNodes' = [historyNodes EXCEPT ![Thread(t).hd].mutex = t]
  /\ hist' = [hist EXCEPT !.threads[t].pc = IF @ = "u_lock" THEN "u_size" ELSE "r_count"]
  /\ UNCHANGED <<histframe, clock>>

\* what an access with undefined behaviour can come to: the thread is
\* killed by a signal, or it goes on past the access
UndefinedOutcomes == {"trap", "goes_on"}

\* an access to hd->values[idx]: defined inside the buffer of maxSize slots
AccessOutcomes(h, idx) == IF idx < h.maxSize THEN {"defined"} ELSE UndefinedOutcomes

\* the % hd->maxSize of line 774: defined unless maxSize is 0
ModOutcomes(h) == IF h.maxSize # 0 THEN {"defined"} ELSE UndefinedOutcomes

\* an append that is dropped when the newest stored sample has the same value
UpdateSizeSkipsDuplicate(t) ==
  /\ Thread(t).pc = "u_size"
  /\ ~Stale(t)
  /\ LET h == historyNodes[Thread(t).hd]
         idx == h.currentIndex
         newest == ((idx + h.maxSize - 1) % h.maxSize) + 1
     IN IF h.currentSize > 0 /\ h.values[newest].value = Thread(t).value
        THEN /\ historyNodes' = historyNodes
             /\ hist' = [hist EXCEPT !.threads[t].pc = "u_unlock"]
        ELSE /\ historyNodes' =
                  IF h.currentSize < h.maxSize
                  THEN [historyNodes EXCEPT ![Thread(t).hd].currentSize = @ + 1]
                  ELSE [historyNodes EXCEPT ![Thread(t).hd].values[idx + 1] = EmptyDataValue]
             /\ hist' = [hist EXCEPT !.threads[t].idx = idx,
                                     !.threads[t].dv = NewDataValue(Thread(t).value, clock),
                                     !.threads[t].pc = "u_slot"]
  /\ UNCHANGED <<histframe, clock>>

\* lines 756-771: build dv, idx = currentIndex, grow or clear the slot;
\* UA_DataValue_clear(&hd->values[idx]) outside the buffer is undefined
UpdateSize(t) ==
  /\ Thread(t).pc = "u_size"
  /\ ~Stale(t)
  /\ LET h == historyNodes[Thread(t).hd]
         idx == h.currentIndex
     IN \E outcome \in (IF h.currentSize < h.maxSize THEN {"defined"}
                        ELSE AccessOutcomes(h, idx)) :
          /\ historyNodes' =
               IF h.currentSize < h.maxSize
               THEN [historyNodes EXCEPT ![Thread(t).hd].currentSize = @ + 1]
               ELSE IF outcome = "defined"
               THEN [historyNodes EXCEPT ![Thread(t).hd].values[idx + 1] = EmptyDataValue]
               ELSE historyNodes
          /\ hist' = [hist EXCEPT !.threads[t].idx = idx,
                                  !.threads[t].dv = NewDataValue(Thread(t).value, clock),
                                  !.threads[t].pc = IF outcome = "trap" THEN "ub"
                                                    ELSE "u_slot"]
  /\ UNCHANGED <<histframe, clock>>

\* line 773: hd->values[idx] = dv; outside the buffer the write is undefined
\* and stores nothing in the history
UpdateSlot(t) ==
  /\ Thread(t).pc = "u_slot"
  /\ ~Stale(t)
  /\ \E outcome \in AccessOutcomes(historyNodes[Thread(t).hd], Thread(t).idx) :
       IF outcome = "defined"
       THEN /\ historyNodes' = [historyNodes EXCEPT
                                  ![Thread(t).hd].values[Thread(t).idx + 1] = Thread(t).dv]
            /\ hist' = [hist EXCEPT !.appended[Thread(t).nodeId] = Append(@, Thread(t).dv),
                                    !.threads[t].pc = "u_index"]
       ELSE /\ historyNodes' = historyNodes
            /\ hist' = [hist EXCEPT !.threads[t].pc = IF outcome = "trap" THEN "ub"
                                                      ELSE "u_index"]
  /\ UNCHANGED <<histframe, clock>>

\* an index that is never advanced
NextIndexStuck(h) == h.currentIndex

\* line 774: (hd->currentIndex + 1) % hd->maxSize
NextIndex(h) == (h.currentIndex + 1) % h.maxSize

\* line 774: hd->currentIndex = ...; with maxSize 0 the remainder is a
\* division by zero: the thread is killed (SIGFPE), or the division yields 0
\* and the remainder is the dividend
UpdateIndex(t) ==
  /\ Thread(t).pc = "u_index"
  /\ ~Stale(t)
  /\ \E outcome \in ModOutcomes(historyNodes[Thread(t).hd]) :
       /\ historyNodes' =
            IF outcome = "defined"
            THEN [historyNodes EXCEPT ![Thread(t).hd].currentIndex =
                                       NextIndex(historyNodes[Thread(t).hd])]
            ELSE IF outcome = "goes_on"
            THEN [historyNodes EXCEPT ![Thread(t).hd].currentIndex = @ + 1]
            ELSE historyNodes
       /\ hist' = [hist EXCEPT !.threads[t].pc = IF outcome = "trap" THEN "ub"
                                                 ELSE "u_unlock"]
  /\ UNCHANGED <<histframe, clock>>

\* lines 776-778: unlock, return UA_STATUSCODE_GOOD
UpdateUnlock(t) ==
  /\ Thread(t).pc = "u_unlock"
  /\ ~Stale(t)
  /\ historyNodes' = [historyNodes EXCEPT ![Thread(t).hd].mutex = 0]
  /\ hist' = [hist EXCEPT !.threads[t].pc = "idle", !.threads[t].status = "Good"]
  /\ UNCHANGED <<histframe, clock>>

\* lines 684-695: count the slots in range; none: unlock and return Good
ReadCount(t) ==
  /\ Thread(t).pc = "r_count"
  /\ ~Stale(t)
  /\ LET h == historyNodes[Thread(t).hd]
         count == CountFrom(h, 0, Thread(t).startTime, Thread(t).endTime)
     IN IF count = 0
        THEN /\ historyNodes' = [historyNodes EXCEPT ![Thread(t).hd].mutex = 0]
             /\ hist' = [hist EXCEPT !.threads[t].count = 0,
                                     !.threads[t].pc = "idle",
                                     !.threads[t].status = "Good"]
        ELSE /\ historyNodes' = historyNodes
             /\ hist' = [hist EXCEPT !.threads[t].count = count,
                                     !.threads[t].pc = "r_copy"]
  /\ UNCHANGED <<histframe, clock>>

\* lines 697-707: allocate count values and copy the slots in range
ReadCopy(t) ==
  /\ Thread(t).pc = "r_copy"
  /\ ~Stale(t)
  /\ hist' = [hist EXCEPT
                !.threads[t].result =
                   CopyFrom(historyNodes[Thread(t).hd], 0, Thread(t).startTime,
                            Thread(t).endTime, Thread(t).count),
                !.threads[t].pc = "r_unlock"]
  /\ UNCHANGED <<histframe, clock, historyNodes>>

\* lines 709-710: unlock, return UA_STATUSCODE_GOOD
ReadUnlock(t) ==
  /\ Thread(t).pc = "r_unlock"
  /\ ~Stale(t)
  /\ historyNodes' = [historyNodes EXCEPT ![Thread(t).hd].mutex = 0]
  /\ hist' = [hist EXCEPT !.threads[t].pc = "idle", !.threads[t].status = "Good"]
  /\ UNCHANGED <<histframe, clock>>

opcua_update_history(t) ==
  \/ \E nodeId \in HistNodeIds, value \in HistValues : CallUpdate(t, nodeId, value)
  \/ UpdateSize(t)
  \/ UpdateSlot(t)
  \/ UpdateIndex(t)
  \/ UpdateUnlock(t)

readHistoryData(t) ==
  \/ \E nodeId \in HistNodeIds, r \in HistRanges : CallRead(t, nodeId, r[1], r[2])
  \/ ReadCount(t)
  \/ ReadCopy(t)
  \/ ReadUnlock(t)

findHistoryData(t) == FindLock(t) \/ FindScan(t)

NextHist ==
  \/ Tick
  \/ \E nodeId \in HistNodeIds, n \in HistCapacities : opcua_add_history_node(nodeId, n)
  \/ \E t \in HistThreads :
       \/ findHistoryData(t)
       \/ HdLock(t)
       \/ opcua_update_history(t)
       \/ readHistoryData(t)

\* a caller publishes a value on a node (update_opcua_node_value_typed) and
\* then enters opcua_update_history with the same node and value
PublishAndAppend(t, nodeId, value) ==
  /\ Thread(t).pc = "idle"
  /\ hist.updates < hist.maxUpdates
  /\ nodeId \in Indices
  /\ node_value' = update_opcua_node_value_typed(node_value, nodeId, value)
  /\ hist' = [hist EXCEPT !.updates = @ + 1,
                          !.threads[t] = [IdleThread EXCEPT !.pc = "u_find",
                                                            !.nodeId = nodeId,
                                                            !.value = value,
                                                            !.status = "published"]]
  /\ UNCHANGED <<pc, exit_status, config, modbus_ctx, clock, current_time_ms,
                 next_poll_times, i, regs, read_rc, shutdown_requested,
                 shutdown_signal_num, historyNodes, last_log, rel, dec,
                 opcua_server, live_ctx, last_read, log_file>>

NextHistPublish ==
  \/ NextHist
  \/ \E t \in HistThreads, nodeId \in HistNodeIds, value \in HistValues :
       PublishAndAppend(t, nodeId, value)

\* the history functions called by one thread, which may publish the value
\* it appends
HistSpec == InitHist(OneCaller, MaxAppends) /\ [][NextHistPublish]_vars

\* the history functions called by two threads at a time
ConcSpec == InitHist(TwoCallers, MaxConcAppends) /\ [][NextHist]_vars

\* the steps of a caller inside findHistoryData, opcua_update_history and
\* readHistoryData
ThreadStep(t) ==
  \/ findHistoryData(t)
  \/ HdLock(t)
  \/ opcua_update_history(t)
  \/ readHistoryData(t)

(***************************************************************************)
(* The history functions with registration and clean-up at any time, also  *)
(* while other callers hold a pointer that findHistoryData returned.       *)
(***************************************************************************)
RaceCapacities == {1}

\* opcua_add_history_node, lines 715-734, called at any time: realloc may
\* extend the array in place or move it, which frees the old block; the
\* bytes of the entries, their mutexes included, are copied.  (A failing
\* realloc unlocks and returns BadOutOfMemory: no change of state.)
AddHistoryNode(nodeId, maxHistoryEntries) ==
  /\ historyMutex = 0
  /\ nodeId = historyNodeCount
  /\ \E moved \in (IF historyNodes = <<>> \/ hist.block >= MaxBlocks
                    THEN {FALSE} ELSE BOOLEAN) :
       hist' = [hist EXCEPT !.block = IF moved THEN @ + 1 ELSE @]
  /\ historyNodes' = Append(historyNodes, NewHistoryData(nodeId, maxHistoryEntries))
  /\ UNCHANGED <<histframe, clock>>

\* a caller enters opcua_cleanup_history()
CallCleanup(t) ==
  /\ Thread(t).pc = "idle"
  /\ hist.block < MaxBlocks
  /\ hist' = [hist EXCEPT !.threads[t] = [IdleThread EXCEPT !.pc = "c_lock"]]
  /\ UNCHANGED <<histframe, clock, historyNodes>>

\* line 782: pthread_mutex_lock(&historyMutex)
CleanupLock(t) ==
  /\ Thread(t).pc = "c_lock"
  /\ historyMutex = 0
  /\ hist' = [hist EXCEPT !.mutex = t, !.threads[t].pc = "c_entry", !.threads[t].idx = 0]
  /\ UNCHANGED <<histframe, clock, historyNodes>>

\* lines 783-790, one pass of the loop: lock the entry's mutex, clear the
\* node id, delete the values, unlock and destroy the mutex
CleanupEntry(t) ==
  /\ Thread(t).pc = "c_entry"
  /\ Thread(t).idx < historyNodeCount
  /\ historyNodes[Thread(t).idx + 1].mutex = 0
  /\ historyNodes' = [historyNodes EXCEPT ![Thread(t).idx + 1].values = <<>>,
                                          ![Thread(t).idx + 1].mutex = -1]
  /\ hist' = [hist EXCEPT !.threads[t].idx = @ + 1]
  /\ UNCHANGED <<histframe, clock>>

\* lines 791-794: free(historyNodes), NULL, count 0, unlock
CleanupFree(t) ==
  /\ Thread(t).pc = "c_entry"
  /\ ~(Thread(t).idx < historyNodeCount)
  /\ historyNodes' = <<>>
  /\ hist' = [hist EXCEPT !.block = @ + 1, !.mutex = 0,
                          !.threads[t].pc = "idle", !.threads[t].status = "Good"]
  /\ UNCHANGED <<histframe, clock>>

opcua_cleanup_history(t) ==
  \/ CallCleanup(t)
  \/ CleanupLock(t)
  \/ CleanupEntry(t)
  \/ CleanupFree(t)

\* the positions at which a caller locks, reads or writes the entry hd
\* points to
EntryAccess ==
  {"u_lock", "u_size", "u_slot", "u_index", "u_unlock",
   "r_lock", "r_count", "r_copy", "r_unlock"}

\* the position after the access at position p
AfterAccess(p) ==
  CASE p = "u_lock" -> "u_size" [] p = "u_size" -> "u_slot"
    [] p = "u_slot" -> "u_index" [] p = "u_index" -> "u_unlock"
    [] p = "u_unlock" -> "idle"
    [] p = "r_lock" -> "r_count" [] p = "r_count" -> "r_copy"
    [] p = "r_copy" -> "r_unlock" [] p = "r_unlock" -> "idle"

\* lines 681-710 and 753-778 executed through a pointer into released
\* memory: undefined behaviour.  The thread is killed, or the access acts
\* on the released block and leaves the entries of the live array as they
\* are (a mutex locked through the pointer before the move stays locked in
\* the copy)
StaleAccess(t) ==
  /\ Thread(t).pc \in EntryAccess
  /\ Stale(t)
  /\ \E outcome \in UndefinedOutcomes :
       hist' = [hist EXCEPT
                  !.threads[t].pc = IF outcome = "trap" THEN "ub" ELSE AfterAccess(@),
                  !.threads[t].status =
                     IF outcome = "goes_on" /\ AfterAccess(Thread(t).pc) = "idle"
                     THEN "Good" ELSE @]
  /\ UNCHANGED <<histframe, clock, historyNodes>>

\* a step of a caller that is inside one of the history functions
Running(t) ==
  /\ Thread(t).pc # "idle"
  /\ (ThreadStep(t) \/ StaleAccess(t) \/ opcua_cleanup_history(t))

NextRace ==
  \/ \E nodeId \in HistNodeIds, n \in RaceCapacities : AddHistoryNode(nodeId, n)
  \/ \E t \in HistThreads :
       \/ ThreadStep(t)
       \/ StaleAccess(t)
       \/ opcua_cleanup_history(t)

\* two callers, with registration and clean-up at any time
RaceSpec == InitHist(TwoCallers, MaxRaceAppends) /\ [][NextRace]_vars

\* the same, where a caller inside a function goes on whenever it can, and
\* a caller that can take a mutex again and again gets it in the end
FairRaceSpec ==
  /\ InitHist(TwoCallers, MaxRaceAppends)
  /\ [][NextRace]_vars
  /\ \A t \in TwoCallers : SF_vars(Running(t))

\* maxHistoryEntries is a size_t the caller chooses: 0 is accepted
ZeroCapacities == HistCapacities \cup {0}

NextZero ==
  \/ Tick
  \/ \E nodeId \in HistNodeIds, n \in ZeroCapacities : opcua_add_history_node(nodeId, n)
  \/ \E t \in HistThreads : ThreadStep(t)

\* the history functions called by one thread, with buffers of every
\* capacity from 0 on
ZeroSpec == InitHist(OneCaller, MaxAppends) /\ [][NextZero]_vars

(***************************************************************************)
(* main in a process in which history has been registered for the node of  *)
(* mapping 0 through opcua_add_history_node before the run loop starts.    *)
(* main itself calls none of the history functions.                        *)
(***************************************************************************)
RegisteredNodes == {<<NewHistoryData(0, n)>> : n \in HistCapacities}

InitRegistered ==
  /\ InitCommon(Configs)
  /\ historyNodes \in RegisteredNodes
  /\ rel = FALSE
  /\ dec = DecOff
  /\ hist = HistOff

RegisteredSpec == InitRegistered /\ [][Next]_vars

(***************************************************************************)
(* Vocabulary of the properties, stated without the decoder's operators.   *)
(***************************************************************************)
\* the documented sentinel of a declared type, as big-endian register words
SentinelWords(data_type) ==
  CASE data_type = "U16" -> <<65535>>
    [] data_type = "S16" -> <<32768>>
    [] data_type = "U32" -> <<65535, 65535>>
    [] data_type = "S32" -> <<32768, 0>>
    [] data_type = "U64" -> <<65535, 65535, 65535, 65535>>

\* the words as an unsigned number, widened to four words
Unsigned(ws) ==
  CASE Len(ws) = 1 -> <<0, 0, 0, ws[1]>>
    [] Len(ws) = 2 -> <<0, 0, ws[1], ws[2]>>
    [] Len(ws) = 4 -> ws

\* the two's complement reading of one or two words: sign and magnitude
SignedAtWidth(ws) ==
  IF ws[1] < 32768 THEN [neg |-> FALSE, mag |-> Unsigned(ws)]
  ELSE IF Len(ws) = 1 THEN [neg |-> TRUE, mag |-> <<0, 0, 0, 65536 - ws[1]>>]
  ELSE IF ws[2] = 0 THEN [neg |-> TRUE, mag |-> <<0, 0, 65536 - ws[1], 0>>]
  ELSE [neg |-> TRUE, mag |-> <<0, 0, 65535 - ws[1], 65536 - ws[2]>>]

\* n of FIXn
FixDecimals(format) ==
  CASE format = FmtFIX -> 0 [] format = FmtFIX0 -> 0 [] format = FmtFIX1 -> 1
    [] format = FmtFIX2 -> 2 [] format = FmtFIX3 -> 3

FixFormats == {FmtFIX, FmtFIX0, FmtFIX1, FmtFIX2, FmtFIX3}

InPass == pc \in {"for_check", "read", "decode"}

(***************************************************************************)
(* C1: a read that truly fails (read_rc = -1) ends the pass: the step      *)
(* closes and clears the connection handle and leaves the for loop without *)
(* ending the process; no register is read while the handle is cleared,    *)
(* nothing is read again in a pass once a read has failed in it, a cleared *)
(* handle is only replaced by a connect attempt, and the next iteration    *)
(* goes to the connect attempt.                                            *)
(***************************************************************************)
C1_ReadFailureAbortsPass ==
  [][ /\ (pc = "read" /\ pc' # pc /\ read_rc' = -1) =>
           (modbus_ctx' = "NULL" /\ ~InPass' /\ pc' \notin {"drain", "cleanup", "exited"}
            /\ exit_status' = -1)
      /\ InPass' => modbus_ctx' = "ctx"
      /\ read_rc' = -1 => ~InPass'
      /\ (modbus_ctx = "NULL" /\ modbus_ctx' = "ctx") => pc = "connect"
      /\ (pc = "loop_top" /\ pc' # pc /\ modbus_ctx = "NULL"
          /\ shutdown_requested = 0) => pc' = "connect"
    ]_vars

\* after a failed read of the first mapping, main is back at the connect
\* call and the second mapping has not been polled in that pass
C1_Witness ==
  /\ pc = "connect"
  /\ read_rc = -1
  /\ i = 0
  /\ num_mappings > 1
  /\ next_poll_times[1] = 0

(***************************************************************************)
(* C2: the run loop is left (for the drain, and the successful exit) only  *)
(* when the shutdown flag is set, whatever connects and reads failed.      *)
(***************************************************************************)
C2_OnlyShutdownEndsLoop ==
  (pc \in {"drain", "cleanup"} \/ (pc = "exited" /\ exit_status = EXIT_SUCCESS)) =>
    shutdown_requested # 0

\* a read failed, the reconnect failed too, and main is about to back off
C2_Witness ==
  /\ pc = "backoff"
  /\ read_rc = -1
  /\ last_log = Log("connection_failed", -1)
  /\ shutdown_requested = 0

(***************************************************************************)
(* C3: no point is skipped for ever.  In every run in which the run loop   *)
(* is entered, shutdown is never requested and no connect attempt fails,   *)
(* every mapping is read again and again, whatever reads of the other      *)
(* mappings fail.                                                          *)
(***************************************************************************)
C3_NoPointSkippedForever ==
  (<>(pc = "loop_top") /\ [](shutdown_requested = 0) /\ [](pc # "connect_failed"))
    => \A p \in 0..1 : []<>(pc = "read" /\ i = p)

(***************************************************************************)
(* C4: when the words read for a mapping are the sentinel of its declared  *)
(* type, the decode step leaves every node value and the history as they   *)
(* are, keeps the connection, and moves on to the next mapping, which is   *)
(* read if it is due.                                                      *)
(***************************************************************************)
C4_SentinelSkipsPublish ==
  [][ /\ (pc = "decode" /\ pc' # pc /\ Mapping(i).data_type \in DeclaredTypes
          /\ regs = SentinelWords(Mapping(i).data_type)) =>
           /\ node_value' = node_value
           /\ historyNodes' = historyNodes
           /\ modbus_ctx = "ctx" /\ modbus_ctx' = "ctx"
           /\ pc' = "for_check" /\ i' = i + 1
      /\ (pc = "for_check" /\ <<pc, i>>' # <<pc, i>> /\ i < num_mappings
          /\ last_log = Log("received_nan", i - 1) /\ shutdown_requested = 0
          /\ next_poll_times[i] <= current_time_ms) => pc' = "read"
    ]_vars

\* the first mapping answered with its sentinel, the second is being read
C4_Witness ==
  /\ pc = "read"
  /\ i = 1
  /\ last_log = Log("received_nan", 0)
  /\ Mapping(0).data_type \in DeclaredTypes
  /\ Mapping(0).format # NoFormat
  /\ node_value[0] = InitialNodeValue(Mapping(0))

(***************************************************************************)
(* C5: for every declared type, format and word sequence the decoder       *)
(* reports "no value" exactly when the words are the sentinel of the type; *)
(* all other words decode to a value.                                      *)
(***************************************************************************)
C5_UnavailableIffSentinel ==
  (dec.pc = "done" /\ dec.data_type \in DeclaredTypes) =>
    /\ (~dec.out.ok) <=> (dec.regs = SentinelWords(dec.data_type))
    /\ dec.out.ok => dec.out.value # EmptyVariant

(***************************************************************************)
(* C6: S16 or S32 with FIXn decodes to the two's complement value of the   *)
(* words at the declared width, scaled by 10^(-n).                         *)
(***************************************************************************)
C6_SignedFixAtDeclaredWidth ==
  (dec.pc = "done" /\ dec.data_type \in {"S16", "S32"}
   /\ dec.format \in FixFormats /\ dec.regs # SentinelWords(dec.data_type)) =>
    LET sv == SignedAtWidth(dec.regs)
        f == FloatOfU64(sv.mag)
    IN /\ dec.out.ok
       /\ dec.out.value = [type |-> "Float", neg |-> sv.neg, sig |-> f.sig,
                           exp |-> f.exp, mul |-> 1,
                           dec |-> FixDecimals(dec.format)]

(***************************************************************************)
(* C7: a mapping without a format whose words are not the sentinel is      *)
(* decoded to the unsigned raw value as a float, and the decode step of    *)
(* the pass writes that value to the mapping's node.                       *)
(***************************************************************************)
C7_NoFormatPublishesRaw ==
  [][ (pc = "decode" /\ pc' # pc /\ Mapping(i).format = NoFormat
       /\ Mapping(i).data_type \in DeclaredTypes
       /\ regs # SentinelWords(Mapping(i).data_type)) =>
        node_value'[i] = FloatVariant(FALSE, Unsigned(regs), 1, 0)
    ]_vars

(***************************************************************************)
(* C8, as claimed: a poll timer changes only in the step that publishes    *)
(* the decoded value of its mapping.                                       *)
(***************************************************************************)
C8_AdvanceOnlyAfterPublish ==
  [][ \A k \in Indices :
        next_poll_times'[k] # next_poll_times[k] =>
          (pc = "decode" /\ i = k /\ last_log' = Log("wrote", k))
    ]_vars

(***************************************************************************)
(* C8, amended: the poll timer of a due mapping is advanced to the pass's  *)
(* clock value plus its interval before the read is issued, and the read   *)
(* and the decode leave it there whatever their outcome; a mapping whose   *)
(* timer lies after the pass's clock value is not read in that pass.       *)
(***************************************************************************)
C8_AdvanceBeforeRead ==
  [][ /\ pc' \in {"read", "decode"} =>
           next_poll_times'[i'] = current_time_ms' + Mapping(i').poll_interval_ms
      /\ (pc \in {"read", "decode"} /\ pc' # pc) =>
           next_poll_times' = next_poll_times
      /\ (pc = "for_check" /\ i < num_mappings
          /\ current_time_ms < next_poll_times[i]) => pc' # "read"
    ]_vars

\* a read has just failed; the timer of its mapping is already advanced and
\* has not expired
C8_Witness ==
  /\ pc = "iterate"
  /\ read_rc = -1
  /\ next_poll_times[i] = current_time_ms + Mapping(i).poll_interval_ms
  /\ clock < next_poll_times[i]

(***************************************************************************)
(* C9: the step that starts the poll attempt of a mapping sets its timer   *)
(* to the pass's clock value plus its interval and no other step changes   *)
(* any timer, so after the attempt, whatever its outcome, the timer has    *)
(* that value and the timers of the other mappings are unchanged.          *)
(***************************************************************************)
C9_AttemptSetsNextDue ==
  [][ \A k \in Indices :
        IF pc = "for_check" /\ pc' = "read" /\ i = k
        THEN next_poll_times'[k] = current_time_ms + Mapping(k).poll_interval_ms
        ELSE /\ next_poll_times'[k] = next_poll_times[k]
             /\ (pc \in {"read", "decode"} /\ pc' # pc /\ i = k) =>
                  next_poll_times'[k] = current_time_ms + Mapping(k).poll_interval_ms
    ]_vars

\* in a pass after the first, a read was interrupted by shutdown: its
\* mapping is due one interval after the pass's clock value, another
\* mapping, not due in this pass, kept its timer
C9_Witness ==
  /\ pc = "iterate"
  /\ read_rc = -2
  /\ current_time_ms > 0
  /\ next_poll_times[i] = current_time_ms + Mapping(i).poll_interval_ms
  /\ \E k \in Indices : k # i /\ next_poll_times[k] = Mapping(k).poll_interval_ms
                        /\ next_poll_times[k] > current_time_ms

(***************************************************************************)
(* C10: the for loop reads mapping i in a pass exactly when its timer is   *)
(* not after the pass's clock value.                                       *)
(***************************************************************************)
C10_DueIffNotBefore ==
  [][ (pc = "for_check" /\ <<pc, i>>' # <<pc, i>> /\ i < num_mappings
       /\ shutdown_requested = 0) =>
        ((pc' = "read") <=> (next_poll_times[i] <= current_time_ms))
    ]_vars

\* a mapping with interval 1000 polled at 0 is examined by a pass at 999
C10_Witness ==
  /\ pc = "for_check"
  /\ i < num_mappings
  /\ shutdown_requested = 0
  /\ Mapping(i).poll_interval_ms = 1000
  /\ next_poll_times[i] = 1000
  /\ current_time_ms = 999

(***************************************************************************)
(* C11: the poll timers are zero when the run loop is entered, so every    *)
(* mapping is due in the pass in which it is first reached.  In every pass *)
(* a read is issued only from the due test of the mapping the loop index   *)
(* stands at, the index never moves back within the pass and moves on by   *)
(* one after a decode, so the due mappings are read in table order and at  *)
(* most once.  While no mapping from the index onwards has been attempted  *)
(* yet (the first pass) and no shutdown is requested, the mapping at the   *)
(* index is read, and the pass is left before the end of the table only    *)
(* by a read failure.                                                      *)
(***************************************************************************)
C11_DueInTableOrder ==
  /\ [][pc = "server_startup" /\ pc' = "loop_top"
          => \A k \in Indices : next_poll_times'[k] = 0]_vars
  /\ [][pc' = "read" /\ pc # "read" => pc = "for_check" /\ i' = i]_vars
  /\ [][InPass /\ InPass'
          => /\ i' >= i
             /\ pc = "decode" /\ pc' # pc => i' = i + 1
             /\ pc = "read" => i' = i]_vars
  /\ [][/\ pc = "for_check"
        /\ <<pc, i>>' # <<pc, i>>
        /\ i < num_mappings
        /\ shutdown_requested = 0
        /\ \A k \in Indices : k >= i => next_poll_times[k] = 0
        => pc' = "read" /\ i' = i]_vars
  /\ [][InPass /\ pc' = "iterate" /\ shutdown_requested' = 0
          => i >= num_mappings \/ read_rc' = -1]_vars

\* the second mapping is being read in the pass in which the first one was
\* read and decoded: both timers were set from this pass's clock value
C11_Witness ==
  /\ pc = "read"
  /\ i = 1
  /\ read_rc = 0
  /\ shutdown_requested = 0
  /\ \A k \in Indices : next_poll_times[k] = current_time_ms + Mapping(k).poll_interval_ms

(***************************************************************************)
(* Vocabulary of the history properties.  hist.appended[n] lists, in the   *)
(* order of the stores, the data values stored for node n so far.          *)
(***************************************************************************)
\* the entry registered for a node id (registered at most once)
EntryOf(nodeId) == CHOOSE k \in DOMAIN historyNodes : historyNodes[k].nodeId = nodeId

Registered(nodeId) == \E k \in DOMAIN historyNodes : historyNodes[k].nodeId = nodeId

\* the slots of an entry that count as retained
Retained(h) == [k \in 1..h.currentSize |-> h.values[k]]

\* the last min(n, capacity) of the n values appended for a node
LastAppended(nodeId) ==
  LET a == hist.appended[nodeId]
      m == Min(Len(a), historyNodes[EntryOf(nodeId)].maxSize)
  IN SubSeq(a, Len(a) - m + 1, Len(a))

Occurrences(seq, x) == Cardinality({k \in DOMAIN seq : seq[k] = x})

\* the same elements, each the same number of times
SameBag(a, b) ==
  /\ Len(a) = Len(b)
  /\ \A k \in DOMAIN a : Occurrences(a, a[k]) = Occurrences(b, a[k])

\* the elements of a sequence of data values with from <= timestamp <= to
Within(seq, from, to) ==
  SelectSeq(seq, LAMBDA dv : from <= dv.sourceTimestamp /\ dv.sourceTimestamp <= to)

\* this step is the return of thread t's readHistoryData
QueryReturns(t) ==
  /\ Thread(t).pc \in {"r_scan", "r_count", "r_unlock"}
  /\ hist'.threads[t].pc = "idle"

CoversAllTime(t) == Thread(t).startTime = 0 /\ Thread(t).endTime = MaxTime

(***************************************************************************)
(* C12: whenever no append is in progress on a registered node, its buffer *)
(* retains min(n, capacity) values, and they are the last min(n, capacity) *)
(* of the n values appended; a query covering all time returns exactly     *)
(* those values.                                                           *)
(***************************************************************************)
C12_RingRetainsLastAppends ==
  /\ [](\A k \in DOMAIN historyNodes :
          LET h == historyNodes[k]
          IN h.mutex = 0 =>
               /\ h.currentSize = Min(Len(hist.appended[h.nodeId]), h.maxSize)
               /\ SameBag(Retained(h), LastAppended(h.nodeId)))
  /\ [][\A t \in HistThreads :
          QueryReturns(t) /\ CoversAllTime(t) /\ Registered(Thread(t).nodeId)
            => SameBag(hist'.threads[t].result, LastAppended(Thread(t).nodeId))]_vars

\* capacity 3, five appends, and a query covering all time has returned 3
C12_Witness ==
  \E t \in HistThreads :
    /\ Thread(t).pc = "idle"
    /\ Thread(t).status = "Good"
    /\ CoversAllTime(t)
    /\ Len(Thread(t).result) = 3
    /\ Registered(Thread(t).nodeId)
    /\ historyNodes[EntryOf(Thread(t).nodeId)].maxSize = 3
    /\ Len(hist.appended[Thread(t).nodeId]) = 5
    /\ Thread(t).result[1].sourceTimestamp # Thread(t).result[3].sourceTimestamp

(***************************************************************************)
(* C13: a query covering all time returns the retained values in the order *)
(* in which they were appended, oldest first, also after the buffer has    *)
(* wrapped.                                                                *)
(***************************************************************************)
C13_QueryOldestFirst ==
  [][\A t \in HistThreads :
       QueryReturns(t) /\ CoversAllTime(t) /\ Registered(Thread(t).nodeId)
         => hist'.threads[t].result = LastAppended(Thread(t).nodeId)]_vars

(***************************************************************************)
(* C14: a query for [startTime, endTime] on a registered node returns Good *)
(* and the retained values whose source timestamp lies in the range, both  *)
(* bounds included, each once (nothing when none lies in it); a query on a *)
(* node that is not registered returns BadNodeIdUnknown and no value.      *)
(***************************************************************************)
C14_QueryReturnsRange ==
  [][\A t \in HistThreads :
       QueryReturns(t) =>
         IF Registered(Thread(t).nodeId)
         THEN /\ hist'.threads[t].status = "Good"
              /\ SameBag(hist'.threads[t].result,
                         Within(LastAppended(Thread(t).nodeId),
                                Thread(t).startTime, Thread(t).endTime))
         ELSE /\ hist'.threads[t].status = "BadNodeIdUnknown"
              /\ hist'.threads[t].result = <<>>]_vars

\* a query for [1, 1] has returned a value while the buffer also retains
\* one value stamped before and one stamped after the range
C14_Witness ==
  \E t \in HistThreads :
    /\ Thread(t).pc = "idle"
    /\ Thread(t).status = "Good"
    /\ Thread(t).startTime = 1 /\ Thread(t).endTime = 1
    /\ Len(Thread(t).result) >= 1
    /\ Registered(Thread(t).nodeId)
    /\ LET h == historyNodes[EntryOf(Thread(t).nodeId)]
       IN /\ h.currentSize = 3
          /\ \E k \in 1..3 : h.values[k].sourceTimestamp = 0
          /\ \E k \in 1..3 : h.values[k].sourceTimestamp = 2
          /\ SameBag(Thread(t).result, Within(Retained(h), 1, 1))

InCritical(t) ==
  Thread(t).pc \in {"u_size", "u_slot", "u_index", "u_unlock", "r_count", "r_copy", "r_unlock"}

\* thread t is inside opcua_update_history, inside readHistoryData
Appending(t) == Thread(t).pc \in {"u_find", "u_scan", "u_lock", "u_size", "u_slot", "u_index", "u_unlock"}
Querying(t) == Thread(t).pc \in {"r_find", "r_scan", "r_lock", "r_count", "r_copy", "r_unlock"}

(***************************************************************************)
(* C16: an append and a query on the same node exclude each other: two     *)
(* threads are never both between the lock and the unlock of one entry,    *)
(* and what a query returns is the in-range part of the values retained    *)
(* when no append was in progress (never a cleared slot or a size that     *)
(* counts a slot not stored yet).                                          *)
(***************************************************************************)
C16_AppendAndQueryExclusive ==
  /\ [](\A t, u \in HistThreads :
          t # u /\ InCritical(t) /\ InCritical(u) => Thread(t).hd # Thread(u).hd)
  /\ [][\A t \in HistThreads :
          QueryReturns(t) /\ Registered(Thread(t).nodeId)
            => SameBag(hist'.threads[t].result,
                       Within(LastAppended(Thread(t).nodeId),
                              Thread(t).startTime, Thread(t).endTime))]_vars

\* a query waits for the mutex of a full buffer whose oldest slot an append
\* has cleared and not yet overwritten
C16_Witness ==
  \E t, u \in HistThreads :
    /\ Thread(t).pc = "r_lock"
    /\ Thread(u).pc = "u_slot"
    /\ Thread(t).hd = Thread(u).hd
    /\ LET h == historyNodes[Thread(u).hd]
       IN /\ h.mutex = u
          /\ h.currentSize = h.maxSize
          /\ h.values[Thread(u).idx + 1] = EmptyDataValue

(***************************************************************************)
(* C17: history operations on different nodes share no lock: while a       *)
(* thread working on one node holds a mutex, no thread working on another  *)
(* node waits for that mutex.                                              *)
(***************************************************************************)
C17_NoLockSharedAcrossNodes ==
  \A t, u \in HistThreads :
    /\ t # u
    /\ Appending(t) \/ Querying(t)
    /\ Appending(u) \/ Querying(u)
    /\ Thread(t).nodeId # Thread(u).nodeId
    => /\ ~(historyMutex = t /\ Thread(u).pc \in {"u_find", "r_find"})
       /\ ~(InCritical(t) /\ Thread(u).pc \in {"u_lock", "r_lock"}
            /\ Thread(u).hd = Thread(t).hd)

\* the positions of main inside the run loop
RunLoop ==
  {"loop_top", "connect", "connect_failed", "backoff", "sample", "for_check",
   "read", "decode", "iterate", "usleep"}

(***************************************************************************)
(* C18: every iteration of the run loop invokes UA_Server_run_iterate      *)
(* once: main comes back to the top of the loop only from the sleep that   *)
(* follows the call, and the sleep is reached only from the call, whether  *)
(* the iteration polled, was aborted by a read failure, or consisted of a  *)
(* failed connect attempt.                                                 *)
(***************************************************************************)
C18_IterateEveryIteration ==
  /\ [][pc' = "loop_top" /\ pc # "loop_top" /\ pc \in RunLoop => pc = "usleep"]_vars
  /\ [][pc' = "usleep" /\ pc # "usleep" => pc = "iterate"]_vars

(***************************************************************************)
(* C19: once the shutdown flag is set while main is in its run loop, main  *)
(* eventually leaves the loop and exits with status 0, every blocking call *)
(* returning.                                                              *)
(***************************************************************************)
C19_ShutdownTerminates ==
  (shutdown_requested # 0 /\ pc \in RunLoop)
    ~> (pc = "exited" /\ exit_status = EXIT_SUCCESS)

\* main has exited with status 0 after a signal interrupted a read
C19_Witness ==
  /\ pc = "exited"
  /\ exit_status = EXIT_SUCCESS
  /\ shutdown_requested # 0
  /\ read_rc = -2
  /\ opcua_server = "deleted"

ErrorLines == {"connection_failed", "read_failed"}

InterruptedIn(where) ==
  pc = where /\ pc' # pc /\ shutdown_requested = 0 /\ shutdown_requested' # 0

C21_InterruptedIsNotFailure ==
  /\ [][InterruptedIn("connect")
          => pc' = "connect_failed" /\ modbus_ctx' = "NULL" /\ last_log' = last_log]_vars
  /\ [][InterruptedIn("read")
          => read_rc' = -2 /\ modbus_ctx' = modbus_ctx /\ last_log' = last_log]_vars
  /\ [][(shutdown_requested # 0 /\ pc = "connect_failed" /\ pc' # pc)
          => pc' = "drain"]_vars
  /\ [](read_rc = -2
          => /\ shutdown_requested # 0
             /\ pc \in {"iterate", "usleep", "loop_top", "drain", "cleanup", "exited"})

\* the drain is reached after an interrupted read, the connection still
\* open and no error line logged for the read
C21_Witness ==
  /\ pc = "drain"
  /\ read_rc = -2
  /\ modbus_ctx = "ctx"
  /\ last_log.msg \notin ErrorLines

(***************************************************************************)
(* C22: the Modbus context is never leaked and never freed twice.  The     *)
(* number of contexts allocated and not yet freed is 0 or 1 at every       *)
(* moment (a second free would make it negative); while main runs it is 1  *)
(* exactly when modbus_ctx is not NULL; a read is issued only with a       *)
(* context; and when main has returned no context is left, also when the   *)
(* last read was interrupted by shutdown (read_rc = -2).                   *)
(***************************************************************************)
C22_HandleNeverLeaked ==
  /\ live_ctx \in {0, 1}
  /\ pc # "exited" => (live_ctx = 1 <=> modbus_ctx = "ctx")
  /\ pc \in {"read", "decode"} => modbus_ctx = "ctx"
  /\ pc = "exited" => live_ctx = 0

\* main has returned after a read that shutdown interrupted: the context
\* that read used has been freed by the drain
C22_Witness ==
  /\ pc = "exited"
  /\ exit_status = EXIT_SUCCESS
  /\ read_rc = -2
  /\ live_ctx = 0

(***************************************************************************)
(* C23: main returns 0 from the drain and EXIT_FAILURE from a failing      *)
(* start-up step, and from nowhere else.  The exit status is set only by   *)
(* the step that returns; a failing start-up returns before the run loop   *)
(* is entered and nothing runs after the return; the drain is entered only *)
(* from the run loop with shutdown requested.  A connect or a read that    *)
(* failed inside the run loop leaves the exit status alone.                *)
(***************************************************************************)
StartUp == {"start", "server_init", "server_startup"}

C23_ExitStatus ==
  /\ [](pc = "exited" <=> exit_status \in {EXIT_SUCCESS, EXIT_FAILURE})
  /\ [][(pc' = "exited" /\ pc # "exited")
          => \/ pc \in StartUp /\ exit_status' = EXIT_FAILURE /\ EXIT_FAILURE # 0
             \/ pc = "cleanup" /\ exit_status' = EXIT_SUCCESS /\ EXIT_SUCCESS = 0]_vars
  /\ [][exit_status' # exit_status => pc' = "exited" /\ pc # "exited"]_vars
  /\ [][pc = "exited" => pc' = "exited"]_vars
  /\ [][(pc \in StartUp /\ pc' # pc)
          => pc' \in StartUp \cup {"loop_top", "exited", "crashed"}]_vars
  /\ [][pc = "crashed" => pc' = "crashed"]_vars
  /\ [][(pc' = "drain" /\ pc # "drain") => pc \in RunLoop /\ shutdown_requested # 0]_vars
  /\ [][(pc' = "cleanup" /\ pc # "cleanup") => pc = "drain"]_vars

\* main has returned 0 although the last read of the run failed
C23_Witness ==
  /\ pc = "exited"
  /\ exit_status = EXIT_SUCCESS
  /\ read_rc = -1

(***************************************************************************)
(* C24: the reconnect path.  A connect that returned NULL is followed by   *)
(* the shutdown check of line 221, which goes to the drain when the flag   *)
(* is set and to the backoff sleep otherwise; the sleep lasts at least     *)
(* BACKOFF_MS and is followed by the while condition, which goes to the    *)
(* drain when the flag is set; a connect attempt is reached only from a    *)
(* while condition that found the flag clear.                              *)
(***************************************************************************)
C24_BackoffBetweenAttempts ==
  /\ [][(pc = "connect" /\ pc' # pc /\ modbus_ctx' = "NULL")
          => pc' = "connect_failed"]_vars
  /\ [][(pc = "connect_failed" /\ pc' # pc)
          => pc' = IF shutdown_requested # 0 THEN "drain" ELSE "backoff"]_vars
  /\ [][(pc = "backoff" /\ pc' # pc)
          => pc' = "loop_top" /\ clock' >= clock + BACKOFF_MS]_vars
  /\ [][(pc = "loop_top" /\ pc' # pc /\ shutdown_requested # 0)
          => pc' = "drain"]_vars
  /\ [][(pc' = "connect" /\ pc # "connect")
          => pc = "loop_top" /\ shutdown_requested = 0 /\ modbus_ctx = "NULL"]_vars

\* C24 as stated: in addition, modbus_tcp_connect is never called while
\* the shutdown flag is set
C24_NoConnectOnceFlagSet ==
  /\ C24_BackoffBetweenAttempts
  /\ [][(pc = "connect" /\ pc' # pc) => shutdown_requested = 0]_vars

\* a second connect attempt is about to be made after a failed one and
\* its backoff
C24_Witness ==
  /\ pc = "connect"
  /\ last_log.msg = "connection_failed"
  /\ clock >= BACKOFF_MS
  /\ shutdown_requested = 0

(***************************************************************************)
(* C25: a mapping whose declared type the decoder does not support fails   *)
(* on its own.  The decode step of such a mapping writes no node, keeps    *)
(* the connection and goes on to the next index of the same pass; the      *)
(* next mapping, when it is due and shutdown is not requested, is read;    *)
(* and when its words decode, its node is written in that same pass.       *)
(***************************************************************************)
Unsupported(k) == Mapping(k).data_type \notin DeclaredTypes

\* the mapping before index k met a decode error in the present pass
DecodeErrorBefore(k) ==
  /\ k > 0
  /\ Unsupported(k - 1)
  /\ next_poll_times[k - 1] = current_time_ms + Mapping(k - 1).poll_interval_ms
  /\ read_rc = 0

\* the words read for mapping k decode to a value
Decodable(k, ws) ==
  /\ ~Unsupported(k)
  /\ ws # SentinelWords(Mapping(k).data_type)
  /\ Mapping(k).format # NoFormat

C25_DecodeErrorIsLocal ==
  /\ [][(pc = "decode" /\ pc' # pc /\ Unsupported(i))
          => /\ node_value' = node_value
             /\ modbus_ctx' = modbus_ctx /\ modbus_ctx = "ctx"
             /\ live_ctx' = live_ctx
             /\ pc' = "for_check" /\ i' = i + 1]_vars
  /\ [][(pc = "for_check" /\ pc' # pc /\ i < num_mappings /\ DecodeErrorBefore(i)
           /\ shutdown_requested = 0 /\ next_poll_times[i] <= current_time_ms)
          => pc' = "read" /\ i' = i]_vars
  /\ [][(pc = "decode" /\ pc' # pc /\ DecodeErrorBefore(i) /\ Decodable(i, regs))
          => /\ node_value'[i].type # "Empty"
             /\ node_value'[i] # InitialNodeValue(Mapping(i))
             /\ last_log' = Log("wrote", i)]_vars

\* the second mapping has been published in a pass in which the first one,
\* of an unsupported type, was read and skipped
C25_Witness ==
  /\ pc = "for_check"
  /\ i = 2
  /\ DecodeErrorBefore(1)
  /\ last_log = Log("wrote", 1)
  /\ node_value[0] = InitialNodeValue(Mapping(0))
  /\ node_value[1] # InitialNodeValue(Mapping(1))
  /\ modbus_ctx = "ctx"

(***************************************************************************)
(* C26: there is no duplicate suppression.  A value that a caller has      *)
(* published is the value of the node while the caller appends it,         *)
(* whatever the node held before.  Every append that has found its entry   *)
(* stores a sample, whether or not its value equals the newest stored      *)
(* one: below capacity the retained count grows by one and no slot is      *)
(* touched, at capacity the count stays and exactly the slot at            *)
(* currentIndex is cleared; then that slot receives the appended value.    *)
(***************************************************************************)
\* the value of the sample appended last for a node
NewestValue(nodeId) ==
  hist.appended[nodeId][Len(hist.appended[nodeId])].value

\* thread t takes a step of its own
Steps(t) == hist'.threads[t] # hist.threads[t]

C26_NoDuplicateSuppression ==
  /\ [](\A t \in HistThreads :
          Thread(t).status = "published"
            => node_value[Thread(t).nodeId] = Thread(t).value)
  /\ [][\A t \in HistThreads :
          (Thread(t).pc = "u_size" /\ Steps(t))
            => LET h == historyNodes[Thread(t).hd]
                   g == historyNodes'[Thread(t).hd]
               IN /\ hist'.threads[t].pc = "u_slot"
                  /\ hist'.threads[t].dv.value = Thread(t).value
                  /\ g.currentSize = Min(h.currentSize + 1, h.maxSize)
                  /\ \A k \in 1..h.maxSize :
                       g.values[k] =
                         IF h.currentSize = h.maxSize /\ k = h.currentIndex + 1
                         THEN EmptyDataValue ELSE h.values[k]]_vars
  /\ [][\A t \in HistThreads :
          (Thread(t).pc = "u_slot" /\ Steps(t))
            => LET h == historyNodes[Thread(t).hd]
                   g == historyNodes'[Thread(t).hd]
               IN /\ g.currentSize = h.currentSize
                  /\ g.values[h.currentIndex + 1].value = Thread(t).value
                  /\ \A k \in 1..h.maxSize :
                       k # h.currentIndex + 1 => g.values[k] = h.values[k]]_vars

\* a value published and appended twice in a row on node 0, capacity 3:
\* the node shows the value and two samples of it are retained
C26_Witness ==
  /\ Registered(0)
  /\ historyNodes[EntryOf(0)].maxSize = 3
  /\ Len(hist.appended[0]) = 2
  /\ hist.appended[0][1].value = hist.appended[0][2].value
  /\ historyNodes[EntryOf(0)].currentSize = 2
  /\ node_value[0] = NewestValue(0)
  /\ \A t \in HistThreads : Thread(t).pc = "idle" /\ Thread(t).status = "Good"

(***************************************************************************)
(* C27: the run loop is left only after SIGINT or SIGTERM was handled, and *)
(* the signal is logged by number.  The recorded signal number changes     *)
(* only to the number of a signal being delivered and the flag is set in   *)
(* the same delivery; whenever main is past the run loop the flag is set   *)
(* and the recorded number is that of SIGINT or SIGTERM, so the line       *)
(* logged on leaving the loop is the one that carries the number.          *)
(***************************************************************************)
PastRunLoop ==
  pc \in {"drain", "cleanup"} \/ (pc = "exited" /\ exit_status = EXIT_SUCCESS)

C27_SignalNumberLogged ==
  /\ [](PastRunLoop => shutdown_requested # 0 /\ shutdown_signal_num \in {SIGINT, SIGTERM})
  /\ [](shutdown_requested # 0 <=> shutdown_signal_num # 0)
  /\ [][shutdown_signal_num' # shutdown_signal_num
          => shutdown_signal_num' \in {SIGINT, SIGTERM} /\ shutdown_requested' # 0]_vars
  /\ [][(pc = "drain" /\ pc' # pc)
          => last_log' = [msg |-> "received_signal", idx |-> shutdown_signal_num]]_vars
  /\ [](last_log.msg # "shutdown_requested")

\* the line with the number of SIGTERM has just been logged
C27_Witness ==
  /\ pc = "cleanup"
  /\ last_log = [msg |-> "received_signal", idx |-> SIGTERM]

(***************************************************************************)
(* C28: U16, U32 or U64 with FIXn decodes to the unsigned value of the     *)
(* words, as a float, scaled by 10^(-n), n being the number after "FIX"    *)
(* and 0 for "FIX" alone.  The float is the single-precision value nearest *)
(* to the unsigned number; the decimal scale is kept exact.                *)
(***************************************************************************)
UnsignedTypes == {"U16", "U32", "U64"}

\* the unsigned number x as a float scaled by 10^(-n)
ScaledFloat(x, n) ==
  LET f == FloatOfU64(x)
  IN [type |-> "Float", neg |-> FALSE, sig |-> f.sig, exp |-> f.exp,
      mul |-> 1, dec |-> n]

C28_UnsignedFixScaled ==
  (dec.pc = "done" /\ dec.data_type \in UnsignedTypes
   /\ dec.format \in FixFormats /\ dec.regs # SentinelWords(dec.data_type)) =>
    /\ dec.out.ok
    /\ dec.out.value = ScaledFloat(Unsigned(dec.regs), FixDecimals(dec.format))
    /\ (dec.regs = <<12345>> /\ dec.format = FmtFIX3)
         => (dec.out.value.sig = 12345 /\ dec.out.value.exp = 0 /\ dec.out.value.dec = 3)
    /\ (dec.regs = <<12345>> /\ dec.format = FmtFIX)
         => (dec.out.value.sig = 12345 /\ dec.out.value.exp = 0 /\ dec.out.value.dec = 0)

\* FIX3 on the U16 word 12345 has been decoded to 12345 * 10^(-3)
C28_Witness ==
  /\ dec.pc = "done"
  /\ dec.data_type = "U16"
  /\ dec.format = FmtFIX3
  /\ dec.regs = <<12345>>
  /\ dec.out.ok
  /\ dec.out.value = [type |-> "Float", neg |-> FALSE, sig |-> 12345, exp |-> 0,
                      mul |-> 1, dec |-> 3]

(***************************************************************************)
(* C29: one read fetches 1 word for U16 and S16, 2 words for U32 and S32   *)
(* and 4 words for U64, and the decoder combines exactly those words, the  *)
(* first one the most significant.  The combined number is observed        *)
(* through the unknown-format branch (the number as a float) and through   *)
(* ENUM (its low 32 bits as an integer); U32 words 1, 0 give 65536.        *)
(***************************************************************************)
WordsOf(data_type) ==
  CASE data_type \in {"U16", "S16"} -> 1
    [] data_type \in {"U32", "S32"} -> 2
    [] data_type = "U64" -> 4

\* the low 32 bits of the big-endian number, read as a signed integer
Low32(ws) ==
  LET n == Len(ws)
      hi == IF n = 1 THEN 0 ELSE ws[n - 1]
  IN (IF hi >= 32768 THEN hi - 65536 ELSE hi) * 65536 + ws[n]

C29_ReadWidthAndWordOrder ==
  /\ (dec.pc \in {"decode", "done"} /\ dec.data_type \in DeclaredTypes)
       => Len(dec.regs) = WordsOf(dec.data_type)
  /\ (dec.pc = "done" /\ dec.data_type \in DeclaredTypes
      /\ dec.regs # SentinelWords(dec.data_type))
       => /\ dec.format = FmtRAW
               => dec.out.value = ScaledFloat(Unsigned(dec.regs), 0)
          /\ dec.format = FmtENUM
               => dec.out.value = [type |-> "Int32", val |-> Low32(dec.regs)]
          /\ (dec.format = FmtENUM /\ dec.data_type = "U32" /\ dec.regs = <<1, 0>>)
               => dec.out.value.val = 65536

\* the U32 words 1, 0 have been decoded to 65536
C29_Witness ==
  /\ dec.pc = "done"
  /\ dec.data_type = "U32"
  /\ dec.format = FmtENUM
  /\ dec.regs = <<1, 0>>
  /\ dec.out.value = [type |-> "Int32", val |-> 65536]

(***************************************************************************)
(* C30: a format that is none of FIXn, ENUM, FW, DT, TM, Duration, TEMP    *)
(* does not fail the poll.  For a supported type and words other than the  *)
(* sentinel the decoder warns about the unknown format and returns the     *)
(* unsigned number as a float, and the decode step of the pass writes that *)
(* value to the node, keeps the connection and goes on with the pass.      *)
(***************************************************************************)
KnownFormats ==
  FixFormats \cup {FmtENUM, FmtFW, FmtDT, FmtTM, FmtDuration, FmtTEMP}

Unrecognized(format) == format # NoFormat /\ format \notin KnownFormats

C30_UnknownFormatPublishesRaw ==
  [][(pc = "decode" /\ pc' # pc /\ Unrecognized(Mapping(i).format)
      /\ Mapping(i).data_type \in DeclaredTypes
      /\ regs # SentinelWords(Mapping(i).data_type))
       => /\ process_modbus_value_formatted(regs, Mapping(i).data_type,
                                            Mapping(i).format).warn = "unknown_format"
          /\ node_value'[i] = ScaledFloat(Unsigned(regs), 0)
          /\ last_log' = Log("wrote", i)
          /\ read_rc' = 0
          /\ modbus_ctx' = "ctx"
          /\ pc' = "for_check"]_vars

\* the word 32768 of a mapping with the unknown format "RAW" has been
\* published as the float 32768
C30_Witness ==
  /\ pc = "for_check"
  /\ i = 2
  /\ Mapping(1).format = FmtRAW
  /\ last_log = Log("wrote", 1)
  /\ node_value[1] = [type |-> "Float", neg |-> FALSE, sig |-> 32768, exp |-> 0,
                      mul |-> 1, dec |-> 0]

(***************************************************************************)
(* C31: FW renders the low 32 bits of the raw value as                     *)
(* major.minor.build.c, the four bytes from the most significant one, the  *)
(* first three in decimal and c = B for a last byte of 3, R for 4 and ?    *)
(* otherwise; 0x01020304 (words 258, 772) renders as 1.2.3.R.              *)
(***************************************************************************)
\* the two low words of the big-endian number: bits 31-16 and bits 15-0
LowWords(ws) ==
  [hi |-> IF Len(ws) = 1 THEN 0 ELSE ws[Len(ws) - 1], lo |-> ws[Len(ws)]]

ReleaseChar(patch) == IF patch = 3 THEN "B" ELSE IF patch = 4 THEN "R" ELSE "?"

C31_FirmwareRendering ==
  (dec.pc = "done" /\ dec.data_type \in DeclaredTypes /\ dec.format = FmtFW
   /\ dec.regs # SentinelWords(dec.data_type)) =>
    LET w == LowWords(dec.regs)
    IN /\ dec.out.ok
       /\ dec.out.value.type = "String"
       /\ dec.out.value.str =
            Decimal(w.hi \div 256) \o <<".">> \o Decimal(w.hi % 256) \o <<".">>
              \o Decimal(w.lo \div 256) \o <<".">> \o <<ReleaseChar(w.lo % 256)>>
       /\ (dec.data_type = "U32" /\ dec.regs = <<258, 772>>)
            => dec.out.value.str = <<"1", ".", "2", ".", "3", ".", "R">>
       /\ (dec.data_type = "U32" /\ dec.regs = <<0, 3>>)
            => dec.out.value.str = <<"0", ".", "0", ".", "0", ".", "B">>
       /\ (dec.data_type = "U32" /\ dec.regs = <<65535, 65534>>)
            => dec.out.value.str =
                 <<"2", "5", "5", ".", "2", "5", "5", ".", "2", "5", "5", ".", "?">>

\* 0x01020304 has been rendered as 1.2.3.R
C31_Witness ==
  /\ dec.pc = "done"
  /\ dec.data_type = "U32"
  /\ dec.format = FmtFW
  /\ dec.regs = <<258, 772>>
  /\ dec.out.value = [type |-> "String", str |-> <<"1", ".", "2", ".", "3", ".", "R">>]

(***************************************************************************)
(* C32: DT and TM decode the 32-bit raw value u to (u + 11644473600) *     *)
(* 10000000 ticks; the product fits a signed 64-bit integer, is positive   *)
(* and strictly increasing in u.                                           *)
(***************************************************************************)
\* a < b for unsigned numbers of the same number of words
LessWords(a, b) ==
  \E k \in 1..Len(a) : a[k] < b[k] /\ \A j \in 1..(k - 1) : a[j] = b[j]

\* (u + 11644473600) * 10000000 computed in 96 bits, where nothing wraps
ExactTicks(hi, lo) ==
  MulTicks(AddWords(<<0, 0, 0, 0, hi, lo>>, <<0, 0>> \o UNIX_EPOCH_OFFSET))

C32_TimestampTicks ==
  (dec.pc = "done" /\ dec.data_type \in DeclaredTypes /\ dec.format \in {FmtDT, FmtTM}
   /\ dec.regs # SentinelWords(dec.data_type)) =>
    LET u == LowWords(dec.regs)
        ticks == dec.out.value.ticks
    IN /\ dec.out.ok
       /\ dec.out.value.type = "DateTime"
       /\ <<0, 0>> \o ticks = ExactTicks(u.hi, u.lo)
       /\ ticks[1] < 32768
       /\ ticks # <<0, 0, 0, 0>>
       /\ \A hi \in Words, lo \in Words :
            LessWords(<<u.hi, u.lo>>, <<hi, lo>>)
              => LessWords(ticks, DecodeDT(<<0, 0, hi, lo>>).ticks)
       /\ (dec.data_type = "U32" /\ dec.regs = <<0, 1>>)
            => ticks = <<413, 45534, 54743, 5760>>
       /\ (dec.data_type = "U32" /\ dec.regs = <<65535, 65534>>)
            => ticks = <<566, 18526, 54285, 21248>>

\* the timestamp 0xFFFFFFFE, the largest one that is not a sentinel, has
\* been decoded
C32_Witness ==
  /\ dec.pc = "done"
  /\ dec.data_type = "U32"
  /\ dec.format = FmtDT
  /\ dec.regs = <<65535, 65534>>
  /\ dec.out.ok
  /\ dec.out.value = [type |-> "DateTime", ticks |-> <<566, 18526, 54285, 21248>>]

(***************************************************************************)
(* C33: TEMP decodes to the raw value times 0.1, the raw value read as a   *)
(* 32-bit two's-complement integer for S32 and as unsigned for every other *)
(* declared type, S16 included; S32 raw -150 (words 65535, 65386) decodes  *)
(* to -15.0.                                                               *)
(***************************************************************************)
C33_TemperatureScaling ==
  (dec.pc = "done" /\ dec.data_type \in DeclaredTypes /\ dec.format = FmtTEMP
   /\ dec.regs # SentinelWords(dec.data_type)) =>
    /\ dec.out.ok
    /\ dec.out.value.type = "Float"
    /\ dec.out.value.mul = 1
    /\ dec.out.value.dec = 1
    /\ dec.data_type = "S32" =>
         LET s == SignedAtWidth(dec.regs)
             f == FloatOfU64(s.mag)
         IN /\ dec.out.value.neg = (s.neg /\ f.sig # 0)
            /\ dec.out.value.sig = f.sig
            /\ dec.out.value.exp = f.exp
    /\ dec.data_type # "S32" => dec.out.value = ScaledFloat(Unsigned(dec.regs), 1)
    /\ (dec.data_type = "S32" /\ dec.regs = <<65535, 65386>>)
         => (dec.out.value.neg /\ dec.out.value.sig = 150 /\ dec.out.value.exp = 0)
    /\ (dec.data_type = "S16" /\ dec.regs = <<65386>>)
         => (~dec.out.value.neg /\ dec.out.value.sig = 65386 /\ dec.out.value.exp = 0)

\* the S32 raw value -150 has been decoded to -150 * 0.1
C33_Witness ==
  /\ dec.pc = "done"
  /\ dec.data_type = "S32"
  /\ dec.format = FmtTEMP
  /\ dec.regs = <<65535, 65386>>
  /\ dec.out.ok
  /\ dec.out.value = [type |-> "Float", neg |-> TRUE, sig |-> 150, exp |-> 0,
                      mul |-> 1, dec |-> 1]

(***************************************************************************)
(* C34: ENUM decodes, for every declared type, to the low 32 bits of the   *)
(* raw value read as two's complement (a 16-bit raw value is zero-         *)
(* extended: S16 0xFFFE gives 65534), and the label reported with it is    *)
(* the name of the first pair of the point whose value equals it, or       *)
(* "Unknown" when there is none.                                           *)
(***************************************************************************)
\* the pairs of the table whose value is val
Matching(enum_values, val) ==
  {j \in 1..Len(enum_values) : enum_values[j].value = val}

C34_EnumValueAndLabel ==
  (dec.pc = "done" /\ dec.data_type \in DeclaredTypes /\ dec.format = FmtENUM
   /\ dec.regs # SentinelWords(dec.data_type)) =>
    LET val == dec.out.value.val
        hits == Matching(dec.enum_values, val)
    IN /\ dec.out.ok
       /\ dec.out.value.type = "Int32"
       /\ val = Low32(dec.regs)
       /\ (dec.data_type = "S16" /\ dec.regs = <<65534>>) => val = 65534
       /\ (dec.data_type = "S32" /\ dec.regs = <<65535, 65534>>) => val = -2
       /\ hits = {} => dec.label = "Unknown"
       /\ hits # {} =>
            \E j \in hits : /\ \A k \in hits : j <= k
                            /\ dec.label = dec.enum_values[j].name

\* the value 1, listed twice in the table, has been reported with the label
\* of the first pair
C34_Witness ==
  /\ dec.pc = "done"
  /\ dec.data_type = "S16"
  /\ dec.format = FmtENUM
  /\ dec.enum_values = StatusEnumValues
  /\ dec.regs = <<1>>
  /\ dec.out.value = [type |-> "Int32", val |-> 1]
  /\ dec.label = "Ok"

(***************************************************************************)
(* C35: two consecutive reads of the same mapping are never closer         *)
(* together than the mapping's poll interval, also when an earlier read of *)
(* the pass has blocked: a mapping that is about to be read was never read *)
(* less than one interval ago.                                             *)
(***************************************************************************)
C35_ReadsOneIntervalApart ==
  (pc = "read" /\ last_read.on /\ last_read.at[i] >= 0)
    => clock - last_read.at[i] >= Mapping(i).poll_interval_ms

(***************************************************************************)
(* C36: log_message is invoked only while the log sink is set: a step that *)
(* logs a line has log_file set before it (the line precedes logger_close) *)
(* or after it (the line follows a successful logger_init); the error      *)
(* logged when the configuration cannot be loaded is no exception.         *)
(***************************************************************************)
C36_LogOnlyWhileSinkSet ==
  [][last_log' # last_log => (log_file # "NULL" \/ log_file' # "NULL")]_vars

(***************************************************************************)
(* C39: after every append the ring indices are in range (currentSize <=   *)
(* maxSize, currentIndex < maxSize), no slot outside the buffer is cleared *)
(* or written, and no append is cut short by undefined behaviour; a buffer *)
(* of capacity 0 stays empty with its index at 0.                          *)
(***************************************************************************)
C39_RingIndicesInRange ==
  /\ \A k \in 1..historyNodeCount :
       LET h == historyNodes[k]
       IN /\ h.currentSize <= h.maxSize
          /\ h.maxSize > 0 => h.currentIndex < h.maxSize
          /\ h.maxSize = 0 => h.currentIndex = 0
  /\ \A t \in HistThreads :
       /\ Thread(t).pc \in {"u_slot", "u_index"}
            => Thread(t).idx < historyNodes[Thread(t).hd].maxSize
       /\ Thread(t).pc # "ub"

(***************************************************************************)
(* C37: a HistoryData reference that findHistoryData returned stays valid  *)
(* while its caller uses it: no caller is about to lock, read or write an  *)
(* entry through a pointer into memory that opcua_add_history_node has     *)
(* moved or opcua_cleanup_history has destroyed or freed.                  *)
(***************************************************************************)
C37_ReferenceStaysValid ==
  \A t \in HistThreads : Thread(t).pc \in EntryAccess => ~Stale(t)

(***************************************************************************)
(* C38: the history locking is deadlock-free.  A caller that has returned  *)
(* holds no mutex, and a caller that waits for historyMutex or for the     *)
(* mutex of an entry gets it in the end.                                   *)
(***************************************************************************)
\* the caller is at a pthread_mutex_lock
Waiting(t) == Thread(t).pc \in {"u_find", "r_find", "u_lock", "r_lock", "c_lock", "c_entry"}

\* the mutexes the caller holds
Holds(t) ==
  \/ historyMutex = t
  \/ \E k \in 1..historyNodeCount : historyNodes[k].mutex = t

C38_LockingDeadlockFree ==
  /\ [](\A t \in HistThreads : Thread(t).pc = "idle" => ~Holds(t))
  /\ \A t \in TwoCallers : Waiting(t) ~> ~Waiting(t)

====
